---- MODULE Spec2Model ----
(***************************************************************************)
(* Model of the document-analysis-and-extraction pipeline of               *)
(* trapper-keeper-mcp: category detection, section analysis, file-name     *)
(* generation, organizeDocumentation and the reference update of the       *)
(* source document (CLAUDE.md).                                            *)
(*                                                                         *)
(* Representation.  A JavaScript string is a sequence of characters, each  *)
(* character a one-element TLA+ string; an emoji is one character written  *)
(* "<name>", the backtick "<backtick>".  A file is kept as its lines, as   *)
(* content.split('\n'): no line contains a newline, so split and join are  *)
(* inverse to each other except that the empty array joins to the empty    *)
(* string, which splits to one empty line (see WriteLines).  Line numbers  *)
(* are 0-based as in the source; Line(lines, i) reads lines[i].            *)
(***************************************************************************)
EXTENDS Integers, Sequences, FiniteSets, TLC

VARIABLES
    source,   \* the lines of the source document (CLAUDE.md)
    files,    \* extracted files on disk: path -> lines
    dirs,     \* directories that exist on disk
    config,   \* the TrapperKeeperConfig in use
    last,     \* the most recent operation: its inputs, the disk before it, its result
    ops,      \* number of operations applied so far
    arg,      \* input of the pure function applied
    ret       \* its result

vars == <<source, files, dirs, config, last, ops, arg, ret>>

None == [none |-> TRUE]

-----------------------------------------------------------------------------
(* Strings *)

LowerAlpha == <<"a","b","c","d","e","f","g","h","i","j","k","l","m","n","o","p","q","r","s","t","u","v","w","x","y","z">>
UpperAlpha == <<"A","B","C","D","E","F","G","H","I","J","K","L","M","N","O","P","Q","R","S","T","U","V","W","X","Y","Z">>
Digits == <<"0","1","2","3","4","5","6","7","8","9">>

Range(s) == {s[i] : i \in DOMAIN s}

IsLower(c) == c \in Range(LowerAlpha)
IsUpper(c) == c \in Range(UpperAlpha)
IsDigit(c) == c \in Range(Digits)

AlphaIndex(alpha, c) == CHOOSE i \in DOMAIN alpha : alpha[i] = c

\* String.prototype.toLowerCase / toUpperCase, one character
LowerChar(c) == IF IsUpper(c) THEN LowerAlpha[AlphaIndex(UpperAlpha, c)] ELSE c
UpperChar(c) == IF IsLower(c) THEN UpperAlpha[AlphaIndex(LowerAlpha, c)] ELSE c

toLowerCase(s) == [i \in DOMAIN s |-> LowerChar(s[i])]
toUpperCase(s) == [i \in DOMAIN s |-> UpperChar(s[i])]

\* \s of a regular expression, and what trim() removes
IsSpace(c) == c \in {" ", "\t"}
\* \w of a regular expression
IsWordChar(c) == IsLower(c) \/ IsUpper(c) \/ IsDigit(c) \/ c = "_"

\* pat occurs in s starting at the 1-based position i
OccursAt(s, pat, i) ==
    /\ i >= 1
    /\ i + Len(pat) - 1 <= Len(s)
    /\ \A k \in 1..Len(pat) : s[i + k - 1] = pat[k]

\* String.prototype.includes
includes(s, pat) == \E i \in 1..(Len(s) + 1) : OccursAt(s, pat, i)

\* String.prototype.startsWith
startsWith(s, pat) == OccursAt(s, pat, 1)

\* String.prototype.indexOf, 1-based; 0 when pat does not occur
indexOf(s, pat) ==
    IF includes(s, pat)
    THEN CHOOSE i \in 1..(Len(s) + 1) :
            /\ OccursAt(s, pat, i)
            /\ \A j \in 1..(i - 1) : ~OccursAt(s, pat, j)
    ELSE 0

\* String.prototype.replace(pat, rep) with a string pattern: the first occurrence only
replace(s, pat, rep) ==
    LET i == indexOf(s, pat)
    IN  IF i = 0 THEN s
        ELSE SubSeq(s, 1, i - 1) \o rep \o SubSeq(s, i + Len(pat), Len(s))

RECURSIVE trimStart(_)
trimStart(s) == IF s # <<>> /\ IsSpace(Head(s)) THEN trimStart(Tail(s)) ELSE s

RECURSIVE trimEnd(_)
trimEnd(s) ==
    IF s # <<>> /\ IsSpace(s[Len(s)]) THEN trimEnd(SubSeq(s, 1, Len(s) - 1)) ELSE s

\* String.prototype.trim
trim(s) == trimEnd(trimStart(s))

\* arr.slice(lo - 1, hi).join(sep), the range split in halves to bound the
\* depth of the evaluation
RECURSIVE JoinRange(_, _, _, _)
JoinRange(arr, sep, lo, hi) ==
    IF lo > hi THEN <<>>
    ELSE IF lo = hi THEN arr[lo]
    ELSE LET mid == (lo + hi) \div 2
         IN  JoinRange(arr, sep, lo, mid) \o sep \o JoinRange(arr, sep, mid + 1, hi)

\* Array.prototype.join
join(arr, sep) == JoinRange(arr, sep, 1, Len(arr))

\* Array.prototype.slice(start, end) for 0 <= start: elements start .. end-1 (0-based)
slice(arr, start, end) ==
    SubSeq(arr, start + 1, IF end > Len(arr) THEN Len(arr) ELSE end)

\* lines[i], 0-based
Line(lines, i) == lines[i + 1]

RECURSIVE SumSeq(_)
SumSeq(s) == IF s = <<>> THEN 0 ELSE Head(s) + SumSeq(Tail(s))

-----------------------------------------------------------------------------
(* src/utils/categories.ts *)

CatArchitecture == <<"a","r","c","h","i","t","e","c","t","u","r","e">>
CatDatabase == <<"d","a","t","a","b","a","s","e">>
CatSecurity == <<"s","e","c","u","r","i","t","y">>
CatFeatures == <<"f","e","a","t","u","r","e","s">>
CatMonitoring == <<"m","o","n","i","t","o","r","i","n","g">>
CatCritical == <<"c","r","i","t","i","c","a","l">>
CatSetup == <<"s","e","t","u","p">>
CatApi == <<"a","p","i">>

\* The category table in its declaration order (Object.entries iterates in it)
DOCUMENT_CATEGORIES == <<
    [key |-> CatArchitecture, emoji |-> "<building>",
     keywords |-> <<<<"a","r","c","h","i","t","e","c","t","u","r","e">>,
                    <<"d","e","s","i","g","n">>,
                    <<"s","y","s","t","e","m">>,
                    <<"s","t","r","u","c","t","u","r","e">>,
                    <<"c","o","m","p","o","n","e","n","t","s">>,
                    <<"d","i","a","g","r","a","m">>>>],
    [key |-> CatDatabase, emoji |-> "<cabinet>",
     keywords |-> <<<<"d","a","t","a","b","a","s","e">>,
                    <<"s","c","h","e","m","a">>,
                    <<"m","i","g","r","a","t","i","o","n">>,
                    <<"m","o","d","e","l">>,
                    <<"s","q","l">>,
                    <<"t","a","b","l","e">>,
                    <<"c","o","l","u","m","n">>>>],
    [key |-> CatSecurity, emoji |-> "<lock>",
     keywords |-> <<<<"s","e","c","u","r","i","t","y">>,
                    <<"a","u","t","h">>,
                    <<"a","u","t","h","e","n","t","i","c","a","t","i","o","n">>,
                    <<"a","u","t","h","o","r","i","z","a","t","i","o","n">>,
                    <<"p","e","r","m","i","s","s","i","o","n">>,
                    <<"t","o","k","e","n">>,
                    <<"j","w","t">>>>],
    [key |-> CatFeatures, emoji |-> "<check>",
     keywords |-> <<<<"f","e","a","t","u","r","e">>,
                    <<"s","p","e","c","i","f","i","c","a","t","i","o","n">>,
                    <<"r","e","q","u","i","r","e","m","e","n","t">>,
                    <<"s","t","o","r","y">>,
                    <<"u","s","e"," ","c","a","s","e">>,
                    <<"f","u","n","c","t","i","o","n","a","l","i","t","y">>>>],
    [key |-> CatMonitoring, emoji |-> "<chart>",
     keywords |-> <<<<"m","o","n","i","t","o","r","i","n","g">>,
                    <<"h","e","a","l","t","h">>,
                    <<"a","n","a","l","y","t","i","c","s">>,
                    <<"l","o","g","g","i","n","g">>,
                    <<"m","e","t","r","i","c","s">>,
                    <<"t","e","l","e","m","e","t","r","y">>,
                    <<"o","b","s","e","r","v","a","b","i","l","i","t","y">>>>],
    [key |-> CatCritical, emoji |-> "<siren>",
     keywords |-> <<<<"c","r","i","t","i","c","a","l">>,
                    <<"e","m","e","r","g","e","n","c","y">>,
                    <<"t","r","o","u","b","l","e","s","h","o","o","t","i","n","g">>,
                    <<"e","r","r","o","r">>,
                    <<"f","i","x">>,
                    <<"i","s","s","u","e">>,
                    <<"p","r","o","b","l","e","m">>,
                    <<"s","o","l","u","t","i","o","n">>>>],
    [key |-> CatSetup, emoji |-> "<clipboard>",
     keywords |-> <<<<"s","e","t","u","p">>,
                    <<"i","n","s","t","a","l","l">>,
                    <<"d","e","p","l","o","y","m","e","n","t">>,
                    <<"c","o","n","f","i","g","u","r","a","t","i","o","n">>,
                    <<"e","n","v","i","r","o","n","m","e","n","t">>,
                    <<"g","e","t","t","i","n","g"," ","s","t","a","r","t","e","d">>>>],
    [key |-> CatApi, emoji |-> "<globe>",
     keywords |-> <<<<"a","p","i">>,
                    <<"e","n","d","p","o","i","n","t">>,
                    <<"i","n","t","e","g","r","a","t","i","o","n">>,
                    <<"r","e","s","t">>,
                    <<"g","r","a","p","h","q","l">>,
                    <<"w","e","b","h","o","o","k">>,
                    <<"s","e","r","v","i","c","e">>>>]
    >>

\* \b at the 1-based position i of s: exactly one of the characters before
\* and at i is a word character (outside the string counts as a non-word)
WordBoundary(s, i) ==
    LET before == i >= 2 /\ i - 1 <= Len(s) /\ IsWordChar(s[i - 1])
        after  == i >= 1 /\ i <= Len(s) /\ IsWordChar(s[i])
    IN  before # after

\* the regular expression \b keyword \b matches at position i
KeywordMatchesAt(s, keyword, i) ==
    /\ OccursAt(s, keyword, i)
    /\ WordBoundary(s, i)
    /\ WordBoundary(s, i + Len(keyword))

\* lowercaseContent.match(regex) with the g flag: the matches are found left
\* to right, each search resuming after the end of the previous match.
\* scan.count is the number of matches so far and scan.next the position
\* the search resumes at; the positions lo..hi are visited in order, the
\* range split in halves to bound the depth of the evaluation (the first
\* half is evaluated before the second is entered: no position before
\* scan.next can start a match).
RECURSIVE MatchScan(_, _, _, _, _)
MatchScan(s, keyword, lo, hi, scan) ==
    IF lo > hi THEN scan
    ELSE IF lo = hi
    THEN IF lo >= scan.next /\ KeywordMatchesAt(s, keyword, lo)
         THEN [count |-> scan.count + 1, next |-> lo + Len(keyword)]
         ELSE scan
    ELSE LET mid == (lo + hi) \div 2
             first == MatchScan(s, keyword, lo, mid, scan)
         IN  IF first.next > hi THEN first
             ELSE MatchScan(s, keyword, mid + 1, hi, first)

\* matches.length (0 when match returns null)
MatchCount(s, keyword) == MatchScan(s, keyword, 1, Len(s), [count |-> 0, next |-> 1]).count

\* the inner loop over category.keywords: score += matches.length
RECURSIVE KeywordScore(_, _, _)
KeywordScore(s, keywords, k) ==
    IF k > Len(keywords) THEN 0
    ELSE MatchCount(s, keywords[k]) + KeywordScore(s, keywords, k + 1)

\* if (score > bestMatch.score)
Improves_ge(score, bestScore) == score >= bestScore
Improves(score, bestScore) == score > bestScore

\* the outer loop over Object.entries(DOCUMENT_CATEGORIES), from entry c on
RECURSIVE BestMatchFrom(_, _, _)
BestMatchFrom(s, c, bestMatch) ==
    IF c > Len(DOCUMENT_CATEGORIES) THEN bestMatch
    ELSE LET score == KeywordScore(s, DOCUMENT_CATEGORIES[c].keywords, 1)
         IN  BestMatchFrom(s, c + 1,
                 IF Improves(score, bestMatch.score)
                 THEN [category |-> DOCUMENT_CATEGORIES[c].key, score |-> score]
                 ELSE bestMatch)

detectCategory(content) ==
    BestMatchFrom(toLowerCase(content), 1, [category |-> CatFeatures, score |-> 0]).category

getCategoryEmoji(category) ==
    IF \E c \in DOMAIN DOCUMENT_CATEGORIES : DOCUMENT_CATEGORIES[c].key = category
    THEN DOCUMENT_CATEGORIES[CHOOSE c \in DOMAIN DOCUMENT_CATEGORIES :
                                 DOCUMENT_CATEGORIES[c].key = category].emoji
    ELSE "<page>"

-----------------------------------------------------------------------------
(* src/utils/analyzer.ts *)

DotMd == <<".","m","d">>
\* the backtick character
Backtick == "<backtick>"
Newline == <<"\n">>

\* a section with more than this many content lines is suggested for extraction
SectionFloor == 50

\* /^##(?!#)\s+/.test(line)
IsSectionHeader(line) ==
    /\ Len(line) >= 3
    /\ line[1] = "#" /\ line[2] = "#"
    /\ line[3] # "#"
    /\ IsSpace(line[3])

\* line.replace(/^##\s+/, '').trim()
SectionTitle(line) ==
    trim(IF Len(line) >= 3 /\ line[1] = "#" /\ line[2] = "#" /\ IsSpace(line[3])
         THEN trimStart(SubSeq(line, 3, Len(line)))
         ELSE line)

\* [A-Z0-9]
IsAZ09(c) == IsUpper(c) \/ IsDigit(c)

RECURSIVE DropNonAZ09(_)
DropNonAZ09(s) == IF s # <<>> /\ ~IsAZ09(Head(s)) THEN DropNonAZ09(Tail(s)) ELSE s

\* .replace(/[^A-Z0-9]+/g, '_'): every maximal run of other characters becomes one '_'
RECURSIVE CollapseNonAZ09(_)
CollapseNonAZ09(s) ==
    IF s = <<>> THEN <<>>
    ELSE IF IsAZ09(Head(s)) THEN <<Head(s)>> \o CollapseNonAZ09(Tail(s))
    ELSE <<"_">> \o CollapseNonAZ09(DropNonAZ09(s))

RECURSIVE StripLeadingUnderscores(_)
StripLeadingUnderscores(s) ==
    IF s # <<>> /\ Head(s) = "_" THEN StripLeadingUnderscores(Tail(s)) ELSE s

RECURSIVE StripTrailingUnderscores(_)
StripTrailingUnderscores(s) ==
    IF s # <<>> /\ s[Len(s)] = "_"
    THEN StripTrailingUnderscores(SubSeq(s, 1, Len(s) - 1))
    ELSE s

\* .replace(/^_+|_+$/g, '')
StripUnderscores(s) == StripTrailingUnderscores(StripLeadingUnderscores(s))

\* title.toUpperCase().replace(/[^A-Z0-9]+/g, '_').replace(/^_+|_+$/g, '')
Sanitize(title) == StripUnderscores(CollapseNonAZ09(toUpperCase(title)))

\* generateFileName of analyzer.ts; the category parameter is not used
generateFileName(title, category) == Sanitize(title) \o DotMd

\* currentSection.content.length > 50
ExceedsFloor_ge(content) == Len(content) >= SectionFloor
ExceedsFloor(content) == Len(content) > SectionFloor

\* the object pushed on suggestions for currentSection; reason keeps the
\* values interpolated into the message
Suggestion(currentSection, endLine) ==
    LET category == detectCategory(join(currentSection.content, Newline))
    IN  [contentType |-> category,
         category |-> category,
         startLine |-> currentSection.startLine,
         endLine |-> endLine,
         suggestedFileName |-> generateFileName(currentSection.title, category),
         reason |-> [title |-> currentSection.title,
                     lines |-> Len(currentSection.content),
                     category |-> category]]

\* endLine of the section that is still open when the loop ends
LastEndLine_dropped(lines) == Len(lines) - 2
LastEndLine(lines) == Len(lines) - 1

\* One iteration of lines.forEach((line, index) => ...).  acc holds
\* currentSection and suggestions; acc.closed records, for the segmentation
\* properties, every currentSection at the moment it is replaced or the loop
\* ends, with the end line the code gives it (index - 1).
AnalyzeLine(acc, line, index) ==
    IF IsSectionHeader(line)
    THEN [currentSection |-> [title |-> SectionTitle(line), startLine |-> index,
                              content |-> <<>>],
          suggestions |->
              IF acc.currentSection # None /\ ExceedsFloor(acc.currentSection.content)
              THEN Append(acc.suggestions, Suggestion(acc.currentSection, index - 1))
              ELSE acc.suggestions,
          closed |->
              IF acc.currentSection # None
              THEN Append(acc.closed, [startLine |-> acc.currentSection.startLine,
                                       endLine |-> index - 1,
                                       content |-> acc.currentSection.content])
              ELSE acc.closed]
    ELSE IF acc.currentSection # None
    THEN [acc EXCEPT !.currentSection.content = Append(@, line)]
    ELSE acc

\* lines.forEach over the indices lo..hi in order, the range split in
\* halves to bound the depth of the evaluation (the test on first makes
\* the first half be evaluated before the second is entered)
RECURSIVE AnalyzeLoop(_, _, _, _)
AnalyzeLoop(lines, lo, hi, acc) ==
    IF lo > hi THEN acc
    ELSE IF lo = hi THEN AnalyzeLine(acc, Line(lines, lo), lo)
    ELSE LET mid == (lo + hi) \div 2
             first == AnalyzeLoop(lines, lo, mid, acc)
         IN  IF first = first THEN AnalyzeLoop(lines, mid + 1, hi, first) ELSE first

\* the loop and the check of the last section
AnalyzeAll(lines) ==
    LET acc == AnalyzeLoop(lines, 0, Len(lines) - 1,
                   [currentSection |-> None, suggestions |-> <<>>, closed |-> <<>>])
    IN  [suggestions |->
             IF acc.currentSection # None /\ ExceedsFloor(acc.currentSection.content)
             THEN Append(acc.suggestions,
                         Suggestion(acc.currentSection, LastEndLine(lines)))
             ELSE acc.suggestions,
         closed |->
             IF acc.currentSection # None
             THEN Append(acc.closed, [startLine |-> acc.currentSection.startLine,
                                      endLine |-> LastEndLine(lines),
                                      content |-> acc.currentSection.content])
             ELSE acc.closed]

analyzeSections(lines) == AnalyzeAll(lines).suggestions

\* the sections analyzeSections delimits while it walks the lines
Sections(lines) == AnalyzeAll(lines).closed

\* first position >= i of s that holds no white space (Len(s) + 1 if none)
RECURSIVE SkipSpaces(_, _)
SkipSpaces(s, i) == IF i <= Len(s) /\ IsSpace(s[i]) THEN SkipSpaces(s, i + 1) ELSE i

\* first position >= i of s that holds the character c (Len(s) + 1 if none)
RECURSIVE FindChar(_, _, _)
FindChar(s, i, c) == IF i <= Len(s) /\ s[i] # c THEN FindChar(s, i + 1, c) ELSE i

\* line.match(referencePattern): the groups (title, path, rest), or None.
\* The pattern is: a dash, white space, two stars, a title of one or more
\* characters other than a star, two stars and a colon, white space, a
\* backtick, a path of one or more characters other than a backtick, a
\* backtick, white space, the rest of the line.  Neither group can give
\* characters back, so the match is unique.
MatchReference(line) ==
    IF ~startsWith(line, <<"-">>) THEN None
    ELSE LET a  == SkipSpaces(line, 2)
             t0 == a + 2
             t1 == FindChar(line, t0, "*")
             b  == SkipSpaces(line, t1 + 3)
             p0 == b + 1
             p1 == FindChar(line, p0, Backtick)
         IN  IF /\ OccursAt(line, <<"*","*">>, a)
                /\ t1 > t0
                /\ OccursAt(line, <<"*","*",":">>, t1)
                /\ OccursAt(line, <<Backtick>>, b)
                /\ p1 > p0
                /\ p1 <= Len(line)
             THEN [title |-> SubSeq(line, t0, t1 - 1),
                   path  |-> SubSeq(line, p0, p1 - 1),
                   rest  |-> SubSeq(line, SkipSpaces(line, p1 + 1), Len(line))]
             ELSE None

ReadThisFirst == <<"R","E","A","D"," ","T","H","I","S"," ","F","I","R","S","T","!">>

\* the characters U+1F300 .. U+1F6FF among the emoji the program writes
EmojiBlock == {"<building>", "<cabinet>", "<lock>", "<chart>", "<siren>",
               "<clipboard>", "<globe>", "<books>", "<page>"}

\* the DocumentReference pushed for a matching line
ReferenceOf(m) ==
    [path |-> m.path,
     category |-> detectCategory(m.title),
     emoji |-> IF m.rest # <<>> /\ m.rest[1] \in EmojiBlock
               THEN m.rest[1]
               ELSE getCategoryEmoji(detectCategory(m.title)),
     title |-> m.title,
     critical |-> includes(m.rest, ReadThisFirst)]

IsMatch(m) == m # None

\* the loop over the lines: one reference for every line that matches
extractReferences(lines) ==
    LET matches == SelectSeq([i \in DOMAIN lines |-> MatchReference(lines[i])], IsMatch)
    IN  [i \in DOMAIN matches |-> ReferenceOf(matches[i])]

\* lineCount > config.thresholds.extractAtLines
NeedsExtraction_ge(lineCount, cfg) == lineCount >= cfg.thresholds.extractAtLines
NeedsExtraction(lineCount, cfg) == lineCount > cfg.thresholds.extractAtLines

\* analyzeFile on the lines read from filePath.  The categories map of the
\* result (detectCategories) is read by no operation modelled here and is
\* left out.
analyzeFile(lines, cfg) ==
    [lineCount |-> Len(lines),
     references |-> extractReferences(lines),
     needsExtraction |-> NeedsExtraction(Len(lines), cfg),
     suggestedExtractions |->
         IF NeedsExtraction(Len(lines), cfg) THEN analyzeSections(lines) ELSE <<>>]

-----------------------------------------------------------------------------
(* src/tools/extract.ts: generateFileName *)

\* String(n) of a non-negative integer
RECURSIVE ToDecimal(_)
ToDecimal(n) ==
    IF n < 10 THEN <<Digits[n + 1]>>
    ELSE ToDecimal(n \div 10) \o <<Digits[(n % 10) + 1]>>

\* generateFileName of extract.ts; now is the value of Date.now()
extract_generateFileName(lines, category, now) ==
    IF \E i \in DOMAIN lines : IsSectionHeader(lines[i])
    THEN LET titleLine == lines[CHOOSE i \in DOMAIN lines :
                                    /\ IsSectionHeader(lines[i])
                                    /\ \A j \in 1..(i - 1) : ~IsSectionHeader(lines[j])]
         IN  Sanitize(SectionTitle(titleLine)) \o DotMd
    ELSE toUpperCase(category) \o <<"_">> \o ToDecimal(now) \o DotMd

-----------------------------------------------------------------------------
(* Specification of detectCategory as a pure function: the text is drawn    *)
(* from the concatenations of at most MaxWords pieces.                      *)

MaxWords == 3

\* keywords in both cases, a keyword inside a longer word, separators that
\* are and are not word characters
Pieces == { <<"a","p","i">>, <<"A","P","I">>, <<"a","p","i","s">>,
            <<"s","q","l">>, <<"f","i","x">>, <<"s","t","o","r","y">>,
            <<"u","s","e">>, <<"c","a","s","e">>,
            <<" ">>, <<"_">>, <<"-">>, <<"\n">> }

RECURSIVE Flatten(_)
Flatten(ss) == IF ss = <<>> THEN <<>> ELSE Head(ss) \o Flatten(Tail(ss))

Texts == UNION { { Flatten(ws) : ws \in [1..n -> Pieces] } : n \in 0..MaxWords }

Idle ==
    /\ source = <<>> /\ files = <<>> /\ dirs = {} /\ config = None
    /\ last = None /\ ops = 0

InitClassify ==
    /\ Idle
    /\ arg \in [text : Texts]
    /\ ret = None

Classify ==
    /\ ret = None
    /\ ret' = [category |-> detectCategory(arg.text)]
    /\ UNCHANGED <<source, files, dirs, config, last, ops, arg>>

NextClassify == Classify

SpecClassify == InitClassify /\ [][NextClassify]_vars

\* Reference operator of the classifier.  A whole-word occurrence of a
\* keyword at position i: the text equals it there up to case and the
\* characters next to it on both sides, if any, are not word characters.
RefOccursAt(text, keyword, i) ==
    /\ i + Len(keyword) - 1 <= Len(text)
    /\ \A k \in 1..Len(keyword) : LowerChar(text[i + k - 1]) = LowerChar(keyword[k])
    /\ i > 1 => ~IsWordChar(text[i - 1])
    /\ i + Len(keyword) <= Len(text) => ~IsWordChar(text[i + Len(keyword)])

RefScore(text, c) ==
    LET kws == DOCUMENT_CATEGORIES[c].keywords
    IN  SumSeq([k \in DOMAIN kws |->
                   Cardinality({i \in 1..Len(text) : RefOccursAt(text, kws[k], i)})])

RefClassify(text) ==
    LET cs == DOMAIN DOCUMENT_CATEGORIES
    IN  IF \A c \in cs : RefScore(text, c) = 0 THEN CatFeatures
        ELSE DOCUMENT_CATEGORIES[
                 CHOOSE c \in cs :
                     /\ \A d \in cs : RefScore(text, d) <= RefScore(text, c)
                     /\ \A d \in cs : d < c => RefScore(text, d) < RefScore(text, c)].key

\* C8: detectCategory(text) is the category of the highest whole-word,
\* case-insensitive keyword score, the first such category in table order
\* on a tie, and features when every score is zero.
C8_ClassifyMatchesReference ==
    ret # None => ret.category = RefClassify(arg.text)

\* C8 witness: a classified text in which two categories tie on the highest,
\* non-zero score.
C8_Witness ==
    /\ ret # None
    /\ \E c, d \in DOMAIN DOCUMENT_CATEGORIES :
          /\ c # d
          /\ RefScore(arg.text, c) > 0
          /\ RefScore(arg.text, c) = RefScore(arg.text, d)
          /\ \A e \in DOMAIN DOCUMENT_CATEGORIES :
                RefScore(arg.text, e) <= RefScore(arg.text, c)

-----------------------------------------------------------------------------
(* Specification of the two generateFileName functions: the section title  *)
(* is drawn from the strings of at most MaxTitleLen characters.            *)

MaxTitleLen == 3

TitleChars == {"a", "B", "7", " ", "-", "_"}

Titles == UNION { [1..n -> TitleChars] : n \in 0..MaxTitleLen }

\* values of Date.now()
Timestamps == {7, 1042}

HeaderPrefix == <<"#","#"," ">>

\* arg.heading: whether the extracted lines start with the section's heading
\* line (extract.ts looks the title up in the extracted lines)
InitFileName ==
    /\ Idle
    /\ arg \in [title : Titles, category : {CatFeatures, CatApi}, heading : BOOLEAN]
    /\ ret = None

\* analyzeSections names the file of a suggestion
AnalyzerFileName ==
    /\ ret = None
    /\ arg.heading
    /\ ret' = [fileName |-> generateFileName(SectionTitle(HeaderPrefix \o arg.title),
                                             arg.category)]
    /\ UNCHANGED <<source, files, dirs, config, last, ops, arg>>

\* extractContent names the file of the extracted lines
ExtractFileName ==
    /\ ret = None
    /\ \E now \in Timestamps :
          ret' = [fileName |->
                     extract_generateFileName(
                         IF arg.heading THEN <<HeaderPrefix \o arg.title>>
                                        ELSE <<arg.title>>,
                         arg.category, now)]
    /\ UNCHANGED <<source, files, dirs, config, last, ops, arg>>

NextFileName == AnalyzerFileName \/ ExtractFileName

SpecFileName == InitFileName /\ [][NextFileName]_vars

\* C9: the file name is the sanitized title followed by .md, and when the
\* title sanitizes to the empty string (or there is no title) it is
\* <CATEGORY>_<timestamp>.md, so it is never just .md.
C9_SuggestedFileName ==
    ret # None =>
        LET sanitized == IF arg.heading THEN Sanitize(arg.title) ELSE <<>>
        IN  /\ ret.fileName # DotMd
            /\ IF sanitized = <<>>
               THEN \E now \in Timestamps :
                       ret.fileName =
                           toUpperCase(arg.category) \o <<"_">> \o ToDecimal(now) \o DotMd
               ELSE ret.fileName = sanitized \o DotMd

-----------------------------------------------------------------------------
(* organizeDocumentation and updateClaudeMdWithReferences *)

\* the projectPath argument, and claudeMdPath = join(projectPath, 'CLAUDE.md')
ProjectPath == <<"/","p">>
ClaudeMdSuffix == <<"/","C","L","A","U","D","E",".","m","d">>
ClaudeMdPath == ProjectPath \o ClaudeMdSuffix

\* path.join normalizes the joined path: a run of slashes becomes one slash
\* (no segment here is "." or "..")
RECURSIVE CollapseSlashes(_)
CollapseSlashes(s) ==
    IF s = <<>> THEN <<>>
    ELSE IF Len(s) >= 2 /\ s[1] = "/" /\ s[2] = "/" THEN CollapseSlashes(Tail(s))
    ELSE <<Head(s)>> \o CollapseSlashes(Tail(s))

pathJoin(parts) == CollapseSlashes(join(parts, <<"/">>))

\* 1-based position of the last slash of p (0 if none)
LastSlash(p) ==
    IF \E i \in DOMAIN p : p[i] = "/"
    THEN CHOOSE i \in DOMAIN p : p[i] = "/" /\ \A j \in (i + 1)..Len(p) : p[j] # "/"
    ELSE 0

\* path.dirname of a path that holds a slash after its first character
dirname(p) == SubSeq(p, 1, LastSlash(p) - 1)

\* file.split('/').pop()
basename(p) == SubSeq(p, LastSlash(p) + 1, Len(p))

\* what a file holds, as lines, after writeFile(path, lines.join('\n'))
WriteLines(lines) == IF lines = <<>> THEN << <<>> >> ELSE lines

\* Array.prototype.splice(start, 0, ...items): start is clamped to the length
spliceIn(arr, start, items) ==
    LET at == IF start > Len(arr) THEN Len(arr) ELSE start
    IN  SubSeq(arr, 1, at) \o items \o SubSeq(arr, at + 1, Len(arr))

DryRunPrefix == <<"[","D","R","Y"," ","R","U","N","]"," ","W","o","u","l","d"," ","e","x","t","r","a","c","t"," ","t","o",":"," ">>

KeyDocumentationReferences == <<"K","e","y"," ","D","o","c","u","m","e","n","t","a","t","i","o","n"," ","R","e","f","e","r","e","n","c","e","s">>
DocumentationReferences == <<"D","o","c","u","m","e","n","t","a","t","i","o","n"," ","R","e","f","e","r","e","n","c","e","s">>

\* the heading line written for a new reference section
ReferenceHeading == <<"#","#"," ","<books>"," ">> \o KeyDocumentationReferences

\* the predicate of lines.findIndex that looks for the reference section
IsReferenceMarker(line) ==
    includes(line, KeyDocumentationReferences) \/ includes(line, DocumentationReferences)

\* lines.findIndex(IsReferenceMarker), 0-based, -1 if no line matches
ReferenceSectionIndex(lines) ==
    IF \E i \in DOMAIN lines : IsReferenceMarker(lines[i])
    THEN (CHOOSE i \in DOMAIN lines :
              IsReferenceMarker(lines[i]) /\ \A j \in 1..(i - 1) : ~IsReferenceMarker(lines[j])) - 1
    ELSE -1

\* lines.findIndex(line => line.startsWith('#')), 0-based, -1 if no line matches
TitleIndex(lines) ==
    IF \E i \in DOMAIN lines : startsWith(lines[i], <<"#">>)
    THEN (CHOOSE i \in DOMAIN lines :
              /\ startsWith(lines[i], <<"#">>)
              /\ \A j \in 1..(i - 1) : ~startsWith(lines[j], <<"#">>)) - 1
    ELSE -1

detectCategoryFromFileName(fileName) ==
    LET lowerName == toLowerCase(fileName)
    IN  IF includes(lowerName, <<"a","r","c","h">>) THEN CatArchitecture
        ELSE IF includes(lowerName, <<"d","b">>) \/ includes(lowerName, CatDatabase)
             THEN CatDatabase
        ELSE IF includes(lowerName, <<"a","u","t","h">>) \/ includes(lowerName, CatSecurity)
             THEN CatSecurity
        ELSE IF includes(lowerName, CatSetup) \/ includes(lowerName, <<"i","n","s","t","a","l","l">>)
             THEN CatSetup
        ELSE IF includes(lowerName, CatApi) THEN CatApi
        ELSE IF includes(lowerName, <<"t","r","o","u","b","l","e">>)
                   \/ includes(lowerName, <<"e","r","r","o","r">>)
             THEN CatCritical
        ELSE CatFeatures

\* the line pushed on newReferences for one extracted file
NewReferenceLine(file, claudeMdPath) ==
    LET fileName == replace(basename(file), DotMd, <<>>)
        emoji == getCategoryEmoji(detectCategoryFromFileName(fileName))
        relativePath == replace(file, replace(claudeMdPath, ClaudeMdSuffix, <<>>), <<>>)
    IN  <<"-"," ","*","*", emoji, " ">> \o fileName
            \o <<"*","*",":"," ", Backtick>> \o relativePath \o <<Backtick>>

\* updateClaudeMdWithReferences: the lines written back to claudeMdPath
updateClaudeMdWithReferences(lines, claudeMdPath, extractedFiles) ==
    LET found == ReferenceSectionIndex(lines)
        referenceSectionIndex == IF found = -1 THEN TitleIndex(lines) + 1 ELSE found
        withSection ==
            IF found = -1
            THEN spliceIn(lines, referenceSectionIndex, << <<>>, ReferenceHeading, <<>> >>)
            ELSE lines
        referenceStartIndex == referenceSectionIndex + 2
        newReferences ==
            [i \in DOMAIN extractedFiles |-> NewReferenceLine(extractedFiles[i], claudeMdPath)]
    IN  spliceIn(withSection, referenceStartIndex, newReferences)

\* lines.slice(suggestion.startLine, suggestion.endLine + 1)
SuggestionLines_exclusive(lines, suggestion) ==
    slice(lines, suggestion.startLine, suggestion.endLine)
SuggestionLines(lines, suggestion) ==
    slice(lines, suggestion.startLine, suggestion.endLine + 1)

\* the loop body with extractedFiles.push(docPath) moved before writeFile
ExtractSuggestion_pushFirst(st, suggestion, index, lines, cfg, dryRun, failWrites) ==
    LET docPath == pathJoin(<<ProjectPath, cfg.organization.docsFolder,
                              suggestion.suggestedFileName>>)
        docsDir == dirname(docPath)
    IN  IF dryRun
        THEN [st EXCEPT !.extractedFiles = Append(@, DryRunPrefix \o docPath)]
        ELSE IF index \in failWrites
        THEN [st EXCEPT !.dirs = @ \cup {docsDir},
                        !.extractedFiles = Append(@, docPath),
                        !.errors = Append(@, [failedToExtract |-> suggestion.suggestedFileName])]
        ELSE [st EXCEPT !.dirs = @ \cup {docsDir},
                        !.files = (docPath :> WriteLines(SuggestionLines(lines, suggestion))) @@ @,
                        !.writes = Append(@, [index |-> index, path |-> docPath,
                                              content |-> WriteLines(SuggestionLines(lines, suggestion))]),
                        !.extractedFiles = Append(@, docPath)]

\* One iteration of the loop over analysis.suggestedExtractions.  st holds
\* the disk (files, dirs), the arrays extractedFiles and errors, and the
\* log of the writeFile calls that succeeded; lines is what
\* readFile(claudeMdPath) returns; writeFile throws for the suggestions
\* whose index is in failWrites.
ExtractSuggestion(st, suggestion, index, lines, cfg, dryRun, failWrites) ==
    LET docPath == pathJoin(<<ProjectPath, cfg.organization.docsFolder,
                              suggestion.suggestedFileName>>)
        docsDir == dirname(docPath)
    IN  IF dryRun
        THEN [st EXCEPT !.extractedFiles = Append(@, DryRunPrefix \o docPath)]
        ELSE IF index \in failWrites
        THEN [st EXCEPT !.dirs = @ \cup {docsDir},
                        !.errors = Append(@, [failedToExtract |-> suggestion.suggestedFileName])]
        ELSE [st EXCEPT !.dirs = @ \cup {docsDir},
                        !.files = (docPath :> WriteLines(SuggestionLines(lines, suggestion))) @@ @,
                        !.writes = Append(@, [index |-> index, path |-> docPath,
                                              content |-> WriteLines(SuggestionLines(lines, suggestion))]),
                        !.extractedFiles = Append(@, docPath)]

RECURSIVE ExtractLoop(_, _, _, _, _, _, _)
ExtractLoop(st, suggestions, index, lines, cfg, dryRun, failWrites) ==
    IF index > Len(suggestions) THEN st
    ELSE ExtractLoop(ExtractSuggestion(st, suggestions[index], index, lines, cfg,
                                       dryRun, failWrites),
                     suggestions, index + 1, lines, cfg, dryRun, failWrites)

\* if (!dryRun && extractedFiles.length > 0)
UpdatesReferences_anyRun(dryRun, extractedFiles) == Len(extractedFiles) > 0
UpdatesReferences(dryRun, extractedFiles) == ~dryRun /\ Len(extractedFiles) > 0

\* organizeDocumentation after its call of analyzeFile, on the disk (src,
\* fls, drs): the disk it leaves, the writeFile calls it made for the
\* suggestions, and the OrganizationResult it returns (errors = None stands
\* for undefined)
OrganizeAnalyzed(analysis, src, fls, drs, cfg, dryRun, failWrites) ==
    IF ~analysis.needsExtraction
    THEN [source |-> src, files |-> fls, dirs |-> drs, writes |-> <<>>,
          result |-> [success |-> TRUE,
                      extractedFiles |-> <<>>,
                      updatedReferences |-> analysis.references,
                      errors |-> <<[withinSizeLimits |-> analysis.lineCount]>>]]
    ELSE LET st == ExtractLoop([files |-> fls, dirs |-> drs, writes |-> <<>>,
                                extractedFiles |-> <<>>, errors |-> <<>>],
                               analysis.suggestedExtractions, 1, src, cfg,
                               dryRun, failWrites)
         IN  [source |-> IF UpdatesReferences(dryRun, st.extractedFiles)
                         THEN updateClaudeMdWithReferences(src, ClaudeMdPath,
                                                           st.extractedFiles)
                         ELSE src,
              files |-> st.files,
              dirs |-> st.dirs,
              writes |-> st.writes,
              result |-> [success |-> Len(st.errors) = 0,
                          extractedFiles |-> st.extractedFiles,
                          updatedReferences |-> analysis.references,
                          errors |-> IF Len(st.errors) > 0 THEN st.errors ELSE None]]

organizeDocumentation(src, fls, drs, cfg, dryRun, failWrites) ==
    OrganizeAnalyzed(analyzeFile(src, cfg), src, fls, drs, cfg, dryRun, failWrites)

-----------------------------------------------------------------------------
(* The documents and configurations the operations are applied to *)

\* DEFAULT_CONFIG of the configuration loader
DefaultConfig ==
    [thresholds |-> [claudeMdMaxLines |-> 500, extractAtLines |-> 200],
     organization |-> [docsFolder |-> <<"/","d","o","c","s">>,
                       useEmojis |-> TRUE, autoReference |-> TRUE],
     patterns |-> [enforceCriticalSection |-> TRUE, requireReadFirstFlags |-> TRUE,
                   autoTroubleshootingDocs |-> TRUE],
     monitoring |-> [watchMode |-> TRUE, validateLinks |-> TRUE, healthChecks |-> TRUE]]

\* the default extractAtLines, and one that documents of one or two
\* sections of about SectionFloor lines lie below, at and above
Configs ==
    { [DefaultConfig EXCEPT !.thresholds.extractAtLines = x] :
          x \in {SectionFloor + 4, DefaultConfig.thresholds.extractAtLines} }

MaxSections == 2

\* two titles that sanitize to the same file name, and one that sanitizes
\* to the empty string
SectionTitles == { <<"A","u","t","h">>, <<"a","u","t","h","!">>, <<"-">> }

\* the content line i of a section: every line differs from the others
BodyLine(i) == IF i = 1 THEN <<"a","u","t","h"," ","t","o","k","e","n">> ELSE ToDecimal(i)

\* a section: its heading line and n content lines
SectionLines(title, n) == <<HeaderPrefix \o title>> \o [i \in 1..n |-> BodyLine(i)]

\* what precedes the first section: nothing, a title, or a title and a
\* reference section with one entry
Preambles ==
    { <<>>,
      << <<"#"," ","P","r","o","j","e","c","t">>, <<>> >>,
      << <<"#"," ","P","r","o","j","e","c","t">>, <<>>,
         ReferenceHeading, <<>>,
         <<"-"," ","*","*","<globe>"," ","A","P","I","*","*",":"," ",Backtick,
           "/","d","o","c","s","/","A","P","I",".","m","d",Backtick>>,
         <<>> >> }

\* the documents of a preamble and at most MaxSections sections whose
\* titles are drawn from titles and whose content lengths from lens
DocsOf(titles, lens) ==
    UNION { { WriteLines(pre \o Flatten([k \in 1..n |-> SectionLines(ts[k], ls[k])])) :
                  pre \in Preambles, ts \in [1..n -> titles], ls \in [1..n -> lens] } :
            n \in 0..MaxSections }

-----------------------------------------------------------------------------
(* Specification of analyzeFile as a pure function of the lines read and   *)
(* the configuration                                                       *)

InitAnalyze ==
    /\ source \in DocsOf({<<"A","u","t","h">>, <<"-">>}, {1, SectionFloor, SectionFloor + 1})
    /\ config \in Configs
    /\ files = <<>> /\ dirs = {} /\ last = None /\ ops = 0
    /\ arg = None /\ ret = None

\* analyzeFile; ret.sections holds the sections analyzeSections delimits
\* when it is called (when extraction is needed)
Analyze ==
    /\ ret = None
    /\ ret' = [analysis |-> analyzeFile(source, config),
               sections |-> IF NeedsExtraction(Len(source), config)
                            THEN Sections(source) ELSE <<>>]
    /\ UNCHANGED <<source, files, dirs, config, last, ops, arg>>

NextAnalyze == Analyze

SpecAnalyze == InitAnalyze /\ [][NextAnalyze]_vars

\* 0-based indices of the second-level headings of the document
HeadingIndices == { i \in 0..(Len(source) - 1) : IsSectionHeader(Line(source, i)) }

\* index of the first heading after h, or the line count if there is none
NextHeading(h) ==
    IF \E g \in HeadingIndices : g > h
    THEN CHOOSE g \in HeadingIndices : g > h /\ \A k \in HeadingIndices : k > h => g <= k
    ELSE Len(source)

\* number of lines after the heading h up to the next heading or the end
BodyLength(h) == NextHeading(h) - h - 1

\* number of lines of a delimited section, its heading included
SectionLength(section) == section.endLine - section.startLine + 1

\* startLine of section n + 1 equals endLine of section n plus 1
Contiguous(sections) ==
    \A n \in 1..(Len(sections) - 1) : sections[n + 1].startLine = sections[n].endLine + 1

\* C5 as stated: the sections are contiguous, the last one ends at the last
\* line of the document, and their lengths add up to the line count of the
\* document.
C5_SectionsCoverDocument ==
    (ret # None /\ ret.analysis.needsExtraction) =>
        /\ Contiguous(ret.sections)
        /\ ret.sections # <<>> =>
               ret.sections[Len(ret.sections)].endLine = Len(source) - 1
        /\ SumSeq([n \in DOMAIN ret.sections |-> SectionLength(ret.sections[n])])
               = Len(source)

\* C5 amended: the sections are contiguous, the first one starts at the
\* first second-level heading, the last one ends at the last line of the
\* document, and their lengths add up to the number of lines from the first
\* heading on (none if the document has no heading); the lines before the
\* first heading belong to no section.
C5_SectionsCoverFromFirstHeading ==
    (ret # None /\ ret.analysis.needsExtraction) =>
        /\ Contiguous(ret.sections)
        /\ Len(ret.sections) = Cardinality(HeadingIndices)
        /\ ret.sections # <<>> =>
               /\ \A h \in HeadingIndices : ret.sections[1].startLine <= h
               /\ ret.sections[1].startLine \in HeadingIndices
               /\ ret.sections[Len(ret.sections)].endLine = Len(source) - 1
        /\ SumSeq([n \in DOMAIN ret.sections |-> SectionLength(ret.sections[n])])
               = IF ret.sections = <<>> THEN 0
                 ELSE Len(source) - ret.sections[1].startLine

\* two sections were delimited in a document whose first heading is not its
\* first line
C5_Witness ==
    /\ ret # None /\ ret.analysis.needsExtraction
    /\ Len(ret.sections) = 2
    /\ ret.sections[1].startLine > 0
    /\ ret.sections[2].endLine = Len(source) - 1

\* C6: needsExtraction is true iff the line count is strictly greater than
\* thresholds.extractAtLines, and when it is false the analysis has no
\* suggestion and still reports the line count.
C6_NeedsExtractionThreshold ==
    ret # None =>
        /\ ret.analysis.needsExtraction
               <=> Len(source) > config.thresholds.extractAtLines
        /\ Len(source) = config.thresholds.extractAtLines
               => ~ret.analysis.needsExtraction
        /\ Len(source) = config.thresholds.extractAtLines + 1
               => ret.analysis.needsExtraction
        /\ ~ret.analysis.needsExtraction =>
               /\ ret.analysis.suggestedExtractions = <<>>
               /\ ret.analysis.lineCount = Len(source)

\* a document of exactly extractAtLines lines, with a section above the
\* floor, was analyzed and yielded no suggestion
C6_Witness ==
    /\ ret # None
    /\ Len(source) = config.thresholds.extractAtLines
    /\ \E h \in HeadingIndices : BodyLength(h) > SectionFloor
    /\ ~ret.analysis.needsExtraction
    /\ ret.analysis.suggestedExtractions = <<>>

-----------------------------------------------------------------------------
(* Specification of the operations on one project *)

MaxOps == 2

Init ==
    /\ source \in DocsOf(SectionTitles, {1, SectionFloor + 1})
    /\ config \in Configs
    /\ files = <<>> /\ dirs = {} /\ last = None /\ ops = 0
    /\ arg = None /\ ret = None

\* organizeDocumentation(projectPath, claudeMdPath, config, dryRun), for
\* every set of suggestions whose file cannot be written.  last keeps the call,
\* the disk before it, the analysis it made, the files it wrote, its result,
\* and whether every operation so far returned success.
Organize ==
    /\ ops < MaxOps
    /\ \E dryRun \in BOOLEAN, analysis \in {analyzeFile(source, config)} :
          \E failWrites \in
                 IF dryRun THEN {{}}
                 ELSE SUBSET (1..Len(analysis.suggestedExtractions)) :
             \E out \in {OrganizeAnalyzed(analysis, source, files, dirs, config,
                                          dryRun, failWrites)} :
                 /\ source' = out.source
                 /\ files' = out.files
                 /\ dirs' = out.dirs
                 /\ last' = [op |-> "organize", dryRun |-> dryRun,
                             failWrites |-> failWrites,
                             before |-> [source |-> source, files |-> files,
                                         dirs |-> dirs],
                             analysis |-> analysis,
                             writes |-> out.writes,
                             result |-> out.result,
                             allSucceeded |-> /\ last # None => last.allSucceeded
                                              /\ out.result.success]
    /\ ops' = ops + 1
    /\ UNCHANGED <<config, arg, ret>>

Next == Organize

Spec == Init /\ [][Next]_vars

\* the path organize writes the file of a suggestion to
DocPathOf(suggestion) ==
    pathJoin(<<ProjectPath, config.organization.docsFolder, suggestion.suggestedFileName>>)

\* the last operation was a live organize
LiveOrganize == last # None /\ last.op = "organize" /\ ~last.dryRun

\* the suggestions of the last organize whose file was written, by index
Extracted == { i \in DOMAIN last.analysis.suggestedExtractions : i \notin last.failWrites }

\* C2: after operations that all succeeded, the reference index of the
\* document (the entry lines extractReferences reads) holds at most one
\* entry per referenced path.
C2_OneEntryPerPath ==
    (last # None /\ last.allSucceeded) =>
        LET references == extractReferences(source)
        IN  \A i, j \in DOMAIN references :
                references[i].path = references[j].path => i = j

\* C3: after a live organize that extracted a range of more than one line,
\* the rewritten document has fewer lines than the original.
C3_ExtractedRangesRemoved ==
    (/\ LiveOrganize
     /\ \E i \in Extracted :
            last.analysis.suggestedExtractions[i].endLine
                > last.analysis.suggestedExtractions[i].startLine)
        => Len(source) < Len(last.before.source)

C28_DistinctFileNames ==
    (last # None /\ last.op = "organize") =>
        /\ \A i, j \in DOMAIN last.analysis.suggestedExtractions :
               last.analysis.suggestedExtractions[i].suggestedFileName
                   = last.analysis.suggestedExtractions[j].suggestedFileName => i = j
        /\ \A v, w \in DOMAIN last.writes :
               last.writes[v].path = last.writes[w].path => v = w

\* C10: a dry-run organize leaves the source document, the files and the
\* directories as they were, and its result lists, for every suggestion in
\* order, the path the file of the suggestion would be written to.
C10_DryRunChangesNothing ==
    (last # None /\ last.op = "organize" /\ last.dryRun) =>
        /\ source = last.before.source
        /\ files = last.before.files
        /\ dirs = last.before.dirs
        /\ Len(last.result.extractedFiles) = Len(last.analysis.suggestedExtractions)
        /\ \A i \in DOMAIN last.result.extractedFiles :
               last.result.extractedFiles[i] =
                   DryRunPrefix \o DocPathOf(last.analysis.suggestedExtractions[i])

\* the suggestions of the last organize whose write failed, in order
FailedSuggestions ==
    SelectSeq([i \in DOMAIN last.analysis.suggestedExtractions |-> i],
              LAMBDA i : i \in last.failWrites)

CountLine(lines, line) == Cardinality({ k \in DOMAIN lines : lines[k] = line })

\* how many more times the reference line of a path stands in the document
\* than before the last operation
AddedReferences(path) ==
    CountLine(source, NewReferenceLine(path, ClaudeMdPath))
        - CountLine(last.before.source, NewReferenceLine(path, ClaudeMdPath))

ErrorsAbsent ==
    /\ last.analysis.needsExtraction
    /\ last.dryRun \/ last.failWrites = {}
    /\ last.result.errors = None

\* C12: success is true iff the errors of the result are empty or absent.
C12_SuccessIffNoErrors ==
    (last # None /\ last.op = "organize") =>
        (last.result.success <=> (ErrorsAbsent \/ last.result.errors = <<>>))

\* a dry run of a document with two sections to extract, after a live
\* organize wrote the file of one of them
C10_Witness ==
    /\ last # None /\ last.op = "organize" /\ last.dryRun
    /\ Len(last.analysis.suggestedExtractions) = 2
    /\ Len(last.result.extractedFiles) = 2
    /\ \E i \in 1..2 : DocPathOf(last.analysis.suggestedExtractions[i]) \in DOMAIN files
    /\ \E i \in 1..2 : DocPathOf(last.analysis.suggestedExtractions[i]) \notin DOMAIN files

-----------------------------------------------------------------------------
(* Specification of updateClaudeMdWithReferences applied repeatedly with   *)
(* the same extracted files                                                *)

MaxSyncs == 2

DocPathAuth == <<"/","p","/","d","o","c","s","/","A","U","T","H",".","m","d">>
DocPathGuide == <<"/","p","/","d","o","c","s","/","G","U","I","D","E",".","m","d">>

InitSync ==
    /\ source \in DocsOf(SectionTitles, {1})
    /\ arg \in [extractedFiles : { <<DocPathAuth>>, <<DocPathAuth, DocPathGuide>> }]
    /\ config \in Configs
    /\ files = <<>> /\ dirs = {} /\ last = None /\ ops = 0
    /\ ret = None

Sync ==
    /\ ops < MaxSyncs
    /\ source' = updateClaudeMdWithReferences(source, ClaudeMdPath, arg.extractedFiles)
    /\ last' = [op |-> "sync", before |-> [source |-> source]]
    /\ ops' = ops + 1
    /\ UNCHANGED <<files, dirs, config, arg, ret>>

NextSync == Sync

SpecSync == InitSync /\ [][NextSync]_vars

\* C13: when the document had no reference marker line and its first
\* heading is a top-level one at line t, the update leaves, right after
\* line t, a blank line, the marker heading, a blank line and then the
\* entry lines of the extracted files in order.
C13_NewBlockLayout ==
    (/\ last # None /\ last.op = "sync"
     /\ ReferenceSectionIndex(last.before.source) = -1
     /\ TitleIndex(last.before.source) >= 0
     /\ startsWith(Line(last.before.source, TitleIndex(last.before.source)), <<"#", " ">>))
        => LET t == TitleIndex(last.before.source)
               n == Len(arg.extractedFiles)
           IN  /\ Len(source) = Len(last.before.source) + 3 + n
               /\ Line(source, t + 1) = <<>>
               /\ Line(source, t + 2) = ReferenceHeading
               /\ Line(source, t + 3) = <<>>
               /\ \A k \in 1..n :
                      Line(source, t + 3 + k)
                          = NewReferenceLine(arg.extractedFiles[k], ClaudeMdPath)

\* C1: the second update with the same extracted files leaves the document
\* as the first update left it.
C1_SyncIdempotent ==
    (last # None /\ last.op = "sync" /\ ops >= 2) => source = last.before.source

-----------------------------------------------------------------------------
(* src/tools/reference.ts: formatReference and formatReferenceSection *)

\* ' <siren> READ THIS FIRST!'
CriticalFlag == <<" ", "<siren>", " ">> \o ReadThisFirst

formatReference(ref) ==
    <<"-"," ","*","*", ref.emoji, " ">> \o ref.title \o <<"*","*",":"," ", Backtick>>
        \o ref.path \o <<Backtick>> \o (IF ref.critical THEN CriticalFlag ELSE <<>>)

\* Object.keys(grouped): the categories in the order in which reduce first
\* meets them (no category is an integer-like key)
RECURSIVE GroupKeys(_)
GroupKeys(references) ==
    IF references = <<>> THEN <<>>
    ELSE LET rest == GroupKeys(SubSeq(references, 1, Len(references) - 1))
             category == references[Len(references)].category
         IN  IF \E k \in DOMAIN rest : rest[k] = category THEN rest
             ELSE Append(rest, category)

\* grouped[category]: the references of the category in input order
Grouped(references, category) ==
    SelectSeq(references, LAMBDA ref : ref.category = category)

\* grouped[category].some(r => r.critical)
SomeCritical(refs) == \E k \in DOMAIN refs : refs[k].critical

\* the comparator of both sorts, on the flags of its two arguments
CriticalFirst_swapped(aCritical, bCritical) ==
    IF aCritical /\ ~bCritical THEN 1
    ELSE IF ~aCritical /\ bCritical THEN -1
    ELSE 0
CriticalFirst(aCritical, bCritical) ==
    IF aCritical /\ ~bCritical THEN -1
    ELSE IF ~aCritical /\ bCritical THEN 1
    ELSE 0

\* Array.prototype.sort is stable: x goes behind the last element of the
\* sorted array that does not compare greater than it.  flags[k] is the
\* flag of sorted[k].
InsertByFlag(sorted, flags, x, xFlag) ==
    LET notGreater == { k \in DOMAIN sorted : CriticalFirst(flags[k], xFlag) <= 0 }
        at == IF notGreater = {} THEN 0
              ELSE CHOOSE k \in notGreater : \A j \in notGreater : j <= k
    IN  SubSeq(sorted, 1, at) \o <<x>> \o SubSeq(sorted, at + 1, Len(sorted))

\* items.sort(comparator) where the comparator looks at flags[k] for items[k]
RECURSIVE SortByFlag(_, _)
SortByFlag(items, flags) ==
    IF items = <<>> THEN <<>>
    ELSE LET n == Len(items)
             sorted == SortByFlag(SubSeq(items, 1, n - 1), SubSeq(flags, 1, n - 1))
             sortedFlags == SortByFlag(SubSeq(flags, 1, n - 1), SubSeq(flags, 1, n - 1))
         IN  InsertByFlag(sorted, sortedFlags, items[n], flags[n])

\* Object.keys(grouped).sort(...)
SortedCategories(references) ==
    LET keys == GroupKeys(references)
    IN  SortByFlag(keys, [k \in DOMAIN keys |-> SomeCritical(Grouped(references, keys[k]))])

\* refs.sort(...) of one category
SortedRefs(refs) == SortByFlag(refs, [k \in DOMAIN refs |-> refs[k].critical])

\* formatReferenceSection: the lines it joins with '\n'
formatReferenceSection(references) ==
    LET categories == SortedCategories(references)
    IN  <<ReferenceHeading, <<>>>>
            \o Flatten([c \in DOMAIN categories |->
                   LET refs == SortedRefs(Grouped(references, categories[c]))
                   IN  [k \in DOMAIN refs |-> formatReference(refs[k])]])

-----------------------------------------------------------------------------
(* Specification of formatReferenceSection as a pure function *)

MaxRefs == 3

\* the reference given at position k of the input: the title tells the
\* positions apart
ReferenceAt(k, category, critical) ==
    [path |-> <<"/","d","/">> \o ToDecimal(k) \o DotMd,
     category |-> category,
     emoji |-> getCategoryEmoji(category),
     title |-> <<"T">> \o ToDecimal(k),
     critical |-> critical]

ReferenceLists ==
    UNION { { [k \in 1..n |-> ReferenceAt(k, cs[k], fs[k])] :
                  cs \in [1..n -> {CatSecurity, CatApi, CatSetup}],
                  fs \in [1..n -> BOOLEAN] } :
            n \in 0..MaxRefs }

InitFormat ==
    /\ arg \in [references : ReferenceLists]
    /\ ret = None
    /\ Idle

Format ==
    /\ ret = None
    /\ ret' = [lines |-> formatReferenceSection(arg.references)]
    /\ UNCHANGED <<source, files, dirs, config, last, ops, arg>>

NextFormat == Format

SpecFormat == InitFormat /\ [][NextFormat]_vars

\* position among the entry lines of the line of the reference given at
\* position i (0 if it has no line)
EntryPosition(i) ==
    LET at == { p \in 1..(Len(ret.lines) - 2) :
                    ret.lines[p + 2] = formatReference(arg.references[i]) }
    IN  IF at = {} THEN 0 ELSE CHOOSE p \in at : TRUE

\* the category of the reference given at position i holds a critical reference
InCriticalCategory(i) ==
    \E k \in DOMAIN arg.references :
        /\ arg.references[k].category = arg.references[i].category
        /\ arg.references[k].critical

\* first position of the input at which the category of reference i occurs
FirstOfCategory(i) ==
    CHOOSE k \in DOMAIN arg.references :
        /\ arg.references[k].category = arg.references[i].category
        /\ \A j \in 1..(k - 1) : arg.references[j].category # arg.references[i].category

-----------------------------------------------------------------------------
(* src/tools/critical.ts: findCriticalDocumentation *)

\* criticalPatterns: head is the text before an optional '.?' and tail the
\* text after it (empty when the pattern has none)
CriticalPatterns ==
    << [head |-> <<"t","r","o","u","b","l","e","s","h","o","o","t","i","n","g">>, tail |-> <<>>],
       [head |-> <<"e","m","e","r","g","e","n","c","y">>, tail |-> <<>>],
       [head |-> <<"c","r","i","t","i","c","a","l">>, tail |-> <<>>],
       [head |-> <<"e","r","r","o","r">>, tail |-> <<>>],
       [head |-> <<"p","r","o","b","l","e","m">>, tail |-> <<>>],
       [head |-> <<"s","o","l","u","t","i","o","n">>, tail |-> <<>>],
       [head |-> <<"s","e","t","u","p">>, tail |-> <<>>],
       [head |-> <<"g","e","t","t","i","n","g">>, tail |-> <<"s","t","a","r","t","e","d">>],
       [head |-> <<"q","u","i","c","k">>, tail |-> <<"s","t","a","r","t">>],
       [head |-> <<"i","n","s","t","a","l","l","a","t","i","o","n">>, tail |-> <<>>],
       [head |-> <<"d","e","p","l","o","y","m","e","n","t">>, tail |-> <<>>] >>

\* new RegExp(pattern, 'i').test(text): the dot of '.?' matches any
\* character but a line terminator
PatternTest(pattern, text) ==
    LET lower == toLowerCase(text)
    IN  \E i \in 1..Len(lower) :
            /\ OccursAt(lower, pattern.head, i)
            /\ \/ OccursAt(lower, pattern.tail, i + Len(pattern.head))
               \/ /\ pattern.tail # <<>>
                  /\ i + Len(pattern.head) <= Len(lower)
                  /\ lower[i + Len(pattern.head)] # "\n"
                  /\ OccursAt(lower, pattern.tail, i + Len(pattern.head) + 1)

\* content.slice(0, 500)
ContentHeadLength == 500
ContentHead(content) ==
    SubSeq(content, 1, IF Len(content) < ContentHeadLength THEN Len(content)
                       ELSE ContentHeadLength)

\* the loop over criticalPatterns: 1-based index of the first pattern that
\* matches the lower-cased file name or the head of the content, 0 if none
MatchedPattern(file, content) ==
    LET hits == { k \in DOMAIN CriticalPatterns :
                      \/ PatternTest(CriticalPatterns[k], toLowerCase(file))
                      \/ PatternTest(CriticalPatterns[k], ContentHead(content)) }
    IN  IF hits = {} THEN 0 ELSE CHOOSE k \in hits : \A j \in hits : k <= j

MarkerCritical == <<"C","R","I","T","I","C","A","L">>
MarkerImportant == <<"I","M","P","O","R","T","A","N","T">>
MarkerReadThisFirst == <<"R","E","A","D"," ","T","H","I","S"," ","F","I","R","S","T">>

\* content.includes('CRITICAL') || content.includes('IMPORTANT') ||
\* content.includes('READ THIS FIRST')
HasExplicitMarker(content) ==
    \/ includes(content, MarkerCritical)
    \/ includes(content, MarkerImportant)
    \/ includes(content, MarkerReadThisFirst)

\* isCritical after both tests
IsCriticalFile(file, content) ==
    MatchedPattern(file, content) # 0 \/ HasExplicitMarker(content)

\* s.replace(/^#+\s*/, '')
RECURSIVE StripHashes(_)
StripHashes(s) ==
    IF s # <<>> /\ Head(s) = "#" THEN StripHashes(Tail(s)) ELSE trimStart(s)

\* the title of a critical document: its first line that starts with '#',
\* or else its path without '.md' and with '_' and '-' turned into spaces
CriticalTitle(file, lines) ==
    IF TitleIndex(lines) # -1
    THEN trim(StripHashes(Line(lines, TitleIndex(lines))))
    ELSE LET name == replace(file, DotMd, <<>>)
         IN  [i \in DOMAIN name |-> IF name[i] \in {"_", "-"} THEN " " ELSE name[i]]

\* the DocumentReference pushed for a critical file; description keeps
\* the interpolated matchedPattern (0 stands for 'explicit marker')
CriticalDoc(file, lines) ==
    LET content == join(lines, Newline)
    IN  [path |-> <<"/">> \o file,
         category |-> CatCritical,
         emoji |-> "<siren>",
         title |-> CriticalTitle(file, lines),
         critical |-> TRUE,
         description |-> IF HasExplicitMarker(content) THEN 0
                         ELSE MatchedPattern(file, content)]

\* findCriticalDocumentation: docFiles is what glob returns (paths relative
\* to projectPath) and project[file] the lines of the file
findCriticalDocumentation(docFiles, project) ==
    LET critical == SelectSeq(docFiles,
                        LAMBDA file : IsCriticalFile(file, join(project[file], Newline)))
    IN  [k \in DOMAIN critical |-> CriticalDoc(critical[k], project[critical[k]])]

-----------------------------------------------------------------------------
(* Specification of findCriticalDocumentation on a project of one file *)

\* n characters that belong to no pattern and no marker
Pad(n) == [i \in 1..n |-> "x"]

\* paths, relative to the project, of the file
CandidateFiles ==
    { <<"n","o","t","e","s",".","m","d">>,
      <<"S","E","T","U","P",".","m","d">>,
      <<"d","o","c","s","/","q","u","i","c","k","-","s","t","a","r","t",".","m","d">>,
      <<"g","e","t","t","i","n","g","s","t","a","r","t","e","d",".","m","d">>,
      <<"d","o","c","s","/","E","r","r","o","r","_","C","o","d","e","s",".","m","d">>,
      <<"g","u","i","d","e",".","m","d">> }

\* what the content holds behind its padding
CandidateWords ==
    { <<>>,
      <<"C","R","I","T","I","C","A","L">>,
      <<"I","M","P","O","R","T","A","N","T">>,
      <<"R","E","A","D"," ","T","H","I","S"," ","F","I","R","S","T">>,
      <<"c","r","i","t","i","c","a","l">>,
      <<"S","e","t","u","p">>,
      <<"p","l","a","i","n">> }

\* where the word starts: at the beginning, across the end of the head, just behind the
\* head, and well behind it
CandidateOffsets == {0, ContentHeadLength - 3, ContentHeadLength, ContentHeadLength + 20}

InitFindCritical ==
    /\ arg \in { [file |-> f, lines |-> <<Pad(n) \o w>>] :
                     f \in CandidateFiles, n \in CandidateOffsets, w \in CandidateWords }
    /\ ret = None
    /\ Idle

FindCritical ==
    /\ ret = None
    /\ ret' = [criticalDocs |->
                   findCriticalDocumentation(<<arg.file>>, arg.file :> arg.lines)]
    /\ UNCHANGED <<source, files, dirs, config, last, ops, arg>>

NextFindCritical == FindCritical

SpecFindCritical == InitFindCritical /\ [][NextFindCritical]_vars

\* C16: the file is reported critical iff its name matches one of the
\* critical patterns or one of the markers CRITICAL, IMPORTANT, READ THIS
\* FIRST occurs within the first 500 characters of its content.
C16_CriticalIffNameOrHeadMarker ==
    ret # None =>
        (ret.criticalDocs # <<>>
             <=> \/ \E k \in DOMAIN CriticalPatterns :
                        PatternTest(CriticalPatterns[k], arg.file)
                 \/ HasExplicitMarker(ContentHead(join(arg.lines, Newline))))

-----------------------------------------------------------------------------
(* src/tools/critical.ts: trackCriticalDocs *)

\* Array.prototype.findIndex on the values of the predicate: the 0-based
\* index of the first TRUE, -1 if there is none
findIndex(flags) ==
    IF \E i \in DOMAIN flags : flags[i]
    THEN (CHOOSE i \in DOMAIN flags : flags[i] /\ \A j \in 1..(i - 1) : ~flags[j]) - 1
    ELSE -1

\* Array.prototype.splice(start, count): both are clamped to the array
spliceOut(arr, start, count) ==
    LET at == IF start > Len(arr) THEN Len(arr) ELSE start
        to == IF at + count > Len(arr) THEN Len(arr) ELSE at + count
    IN  SubSeq(arr, 1, at) \o SubSeq(arr, to + 1, Len(arr))

CriticalPatternUpper == <<"C","R","I","T","I","C","A","L"," ","D","O","C","U","M","E","N","T","A","T","I","O","N"," ","P","A","T","T","E","R","N">>
CriticalPatternTitle == <<"C","r","i","t","i","c","a","l"," ","D","o","c","u","m","e","n","t","a","t","i","o","n"," ","P","a","t","t","e","r","n">>

\* the lines spliced in for a new critical section
CriticalHeading == <<"#","#"," ","<clipboard>"," ">> \o CriticalPatternUpper
CriticalIntro == <<"T","h","e"," ","f","o","l","l","o","w","i","n","g"," ","d","o","c","u","m","e","n","t","a","t","i","o","n"," ","i","s"," ","c","r","i","t","i","c","a","l"," ","f","o","r"," ","s","y","s","t","e","m"," ","o","p","e","r","a","t","i","o","n"," ","a","n","d"," ","t","r","o","u","b","l","e","s","h","o","o","t","i","n","g",":">>
CriticalSectionLines == << <<>>, CriticalHeading, <<>>, CriticalIntro, <<>> >>

IsCriticalMarker(line) ==
    includes(line, CriticalPatternUpper) \/ includes(line, CriticalPatternTitle)

\* lines.findIndex(...) for the critical section
CriticalSectionIndex(lines) ==
    findIndex([i \in DOMAIN lines |-> IsCriticalMarker(lines[i])])

\* insertIndex: behind the first blank line at or after the line that holds
\* 'Documentation References', or else two lines behind the first heading
InsertIndex(lines) ==
    LET referenceSectionIndex ==
            findIndex([i \in DOMAIN lines |-> includes(lines[i], DocumentationReferences)])
    IN  IF referenceSectionIndex # -1
        THEN referenceSectionIndex
                 + findIndex([i \in 1..(Len(lines) - referenceSectionIndex) |->
                                  trim(lines[referenceSectionIndex + i]) = <<>>])
                 + 1
        ELSE TitleIndex(lines) + 2

\* the while loop that looks for the end of the critical section
RECURSIVE CriticalSectionEnd(_, _)
CriticalSectionEnd(lines, sectionEnd) ==
    IF /\ sectionEnd < Len(lines)
       /\ trim(Line(lines, sectionEnd)) # <<>>
       /\ ~startsWith(Line(lines, sectionEnd), <<"#">>)
    THEN CriticalSectionEnd(lines, sectionEnd + 1)
    ELSE sectionEnd

\* if (criticalSectionIndex !== -1): the old entries of the section are
\* replaced by the formatted critical documents
UpdateCriticalSection(lines, criticalSectionIndex, criticalDocs) ==
    LET sectionStart == criticalSectionIndex + 3
        sectionEnd == CriticalSectionEnd(lines, sectionStart)
        removed == IF sectionEnd > sectionStart
                   THEN spliceOut(lines, sectionStart, sectionEnd - sectionStart)
                   ELSE lines
    IN  spliceIn(removed, sectionStart,
                 [k \in DOMAIN criticalDocs |-> formatReference(criticalDocs[k])])

\* one iteration of the loop that marks the critical documents in the
\* reference section; references is analysis.references
MarkCritical(st, criticalDoc, references) ==
    LET existing == { r \in DOMAIN references : references[r].path = criticalDoc.path }
        existingRef == references[CHOOSE r \in existing : \A q \in existing : r <= q]
        refLineIndex ==
            findIndex([i \in DOMAIN st.lines |->
                           /\ includes(st.lines[i], criticalDoc.path)
                           /\ includes(st.lines[i], <<"*","*">>)])
    IN  IF /\ existing # {}
           /\ ~existingRef.critical
           /\ refLineIndex # -1
           /\ ~includes(Line(st.lines, refLineIndex), ReadThisFirst)
        THEN [lines |-> [st.lines EXCEPT ![refLineIndex + 1] = @ \o CriticalFlag],
              referencesUpdated |-> TRUE]
        ELSE st

RECURSIVE MarkLoop(_, _, _, _)
MarkLoop(st, criticalDocs, k, references) ==
    IF k > Len(criticalDocs) THEN st
    ELSE MarkLoop(MarkCritical(st, criticalDocs[k], references), criticalDocs, k + 1,
                  references)

\* trackCriticalDocs from readFile on: src is what readFile returned,
\* references the references of the analysis that analyzeFile makes of the
\* file before the loop, criticalDocs what findCriticalDocumentation returned
trackCriticalDocsWith(src, references, criticalDocs, cfg) ==
    LET found == CriticalSectionIndex(src)
        inserts == found = -1 /\ cfg.patterns.enforceCriticalSection
        insertIndex == InsertIndex(src)
        withSection == IF inserts THEN spliceIn(src, insertIndex, CriticalSectionLines)
                       ELSE src
        criticalSectionIndex == IF inserts THEN insertIndex + 1 ELSE found
        updated == criticalSectionIndex # -1
        sectionUpdated ==
            IF updated
            THEN UpdateCriticalSection(withSection, criticalSectionIndex, criticalDocs)
            ELSE withSection
        marked == MarkLoop([lines |-> sectionUpdated, referencesUpdated |-> FALSE],
                           criticalDocs, 1, references)
    IN  [source |-> IF updated \/ marked.referencesUpdated THEN marked.lines ELSE src,
         result |-> [success |-> TRUE,
                     criticalDocs |-> criticalDocs,
                     updated |-> updated \/ marked.referencesUpdated]]

\* trackCriticalDocs when CLAUDE.md can be read and nothing else writes it:
\* the analysis is made of the file, which still holds src when the loop runs
trackCriticalDocs(src, criticalDocs, cfg) ==
    trackCriticalDocsWith(src, analyzeFile(src, cfg).references, criticalDocs, cfg)

-----------------------------------------------------------------------------
(* Specification of trackCriticalDocs and organizeDocumentation on one     *)
(* project whose docs folder already holds files                           *)

MaxTracks == 2

\* paths relative to the project
RelClaudeMd == <<"C","L","A","U","D","E",".","m","d">>
RelSetup == <<"d","o","c","s","/","S","E","T","U","P",".","m","d">>
RelGuide == <<"d","o","c","s","/","G","U","I","D","E",".","m","d">>
RelNotes == <<"d","o","c","s","/","N","O","T","E","S",".","m","d">>

\* path.join(projectPath, file) for a path relative to the project, and back
InProject(file) == ProjectPath \o <<"/">> \o file
Relative(path) == SubSeq(path, Len(ProjectPath) + 2, Len(path))

\* the markdown files of the project as glob and readFile see them: the
\* path relative to the project -> the lines of the file
DiskFiles(fls) == [file \in { Relative(p) : p \in DOMAIN fls } |-> fls[InProject(file)]]
ProjectFiles(src, fls) == (RelClaudeMd :> src) @@ DiskFiles(fls)

\* glob('**/*.md', {cwd: projectPath, ...}): the files of the project in
\* the order of the directory listing; no file lies under node_modules,
\* dist or .git
Glob(listing, project) == SelectSeq(listing, LAMBDA file : file \in DOMAIN project)

\* entries of the reference index, as formatReference writes them: a
\* document that is not critical, one that is critical by its name, and a
\* second entry for the latter
EntryGuide ==
    formatReference([emoji |-> "<page>", title |-> <<"S","e","t","u","p"," ","g","u","i","d","e">>,
                     path |-> <<"/">> \o RelGuide, critical |-> FALSE])
EntrySetup ==
    formatReference([emoji |-> "<page>", title |-> <<"S","e","t","u","p">>,
                     path |-> <<"/">> \o RelSetup, critical |-> FALSE])
EntrySetupAgain ==
    formatReference([emoji |-> "<page>", title |-> <<"I","n","s","t","a","l","l"," ","a","n","d"," ","s","e","t","u","p">>,
                     path |-> <<"/">> \o RelSetup, critical |-> FALSE])

TrackEntries == { <<EntrySetup>>, <<EntryGuide, EntrySetup>>, <<EntrySetup, EntrySetupAgain>> }

\* no reference index, one laid out as formatReferenceSection writes it
\* (heading, blank line, entries) and one as updateClaudeMdWithReferences
\* leaves it (heading, entries, blank line)
TrackIndexes ==
    { <<>> }
        \cup { <<ReferenceHeading, <<>>>> \o es \o << <<>> >> : es \in TrackEntries }
        \cup { <<ReferenceHeading>> \o es \o << <<>> >> : es \in TrackEntries }

\* a critical section written by an earlier run that found RelSetup
EarlierCriticalSection ==
    <<CriticalHeading, <<>>, CriticalIntro, <<>>,
      formatReference([emoji |-> "<siren>", title |-> <<"S","e","t","u","p">>,
                       path |-> <<"/">> \o RelSetup, critical |-> TRUE]),
      <<>> >>

\* a section long enough to be extracted
LongSection == SectionLines(<<"S","e","t","u","p">>, SectionFloor + 1)

TrackDocs ==
    { << <<"#"," ","P","r","o","j","e","c","t">>, <<>> >> \o body \o tail :
          body \in { idx : idx \in TrackIndexes }
                       \cup { idx \o EarlierCriticalSection : idx \in TrackIndexes }
                       \cup { EarlierCriticalSection \o idx : idx \in TrackIndexes \ {<<>>} },
          tail \in { <<>>, LongSection } }

TrackFiles ==
    LET base == (InProject(RelSetup) :> << <<"#"," ","S","e","t","u","p">> >>) @@ (InProject(RelGuide) :> << <<"#"," ","G","u","i","d","e">> >>)
    IN  { base, base @@ (InProject(RelNotes) :> << <<"#"," ","N","o","t","e","s">>, MarkerImportant >>) }

TrackConfigs ==
    { [DefaultConfig EXCEPT !.thresholds.extractAtLines = SectionFloor + 4,
                            !.patterns.enforceCriticalSection = enforce] :
          enforce \in BOOLEAN }

\* two orders in which the directory listing can give the files
Listings ==
    { <<RelClaudeMd, RelGuide, RelNotes, RelSetup>>,
      <<RelSetup, RelNotes, RelGuide, RelClaudeMd>> }

InitTrack ==
    /\ source \in TrackDocs
    /\ files \in TrackFiles
    /\ dirs = { dirname(InProject(RelSetup)) }
    /\ config \in TrackConfigs
    /\ arg \in [listing : Listings]
    /\ last = None /\ ops = 0 /\ ret = None

\* trackCriticalDocs(projectPath, join(projectPath, 'CLAUDE.md'), config).
\* last keeps the document before the call, the critical documents found,
\* the result, the operation before this one, whether every operation so
\* far was a trackCriticalDocs, and whether every one returned success.
TrackCritical ==
    /\ ops < MaxTracks
    /\ \E project \in {ProjectFiles(source, files)} :
          \E criticalDocs \in {findCriticalDocumentation(Glob(arg.listing, project), project)} :
             \E out \in {trackCriticalDocs(source, criticalDocs, config)} :
                 /\ source' = out.source
                 /\ last' = [op |-> "track",
                             before |-> [source |-> source],
                             criticalDocs |-> criticalDocs,
                             result |-> out.result,
                             previous |-> IF last = None THEN "none" ELSE last.op,
                             onlyTracks |-> last # None =>
                                                last.op = "track" /\ last.onlyTracks,
                             allSucceeded |-> /\ last # None => last.allSucceeded
                                              /\ out.result.success]
    /\ ops' = ops + 1
    /\ UNCHANGED <<files, dirs, config, arg, ret>>

NextTrack == TrackCritical \/ Organize

SpecTrack == InitTrack /\ [][NextTrack]_vars

\* the lines (1-based) of the entries of the reference index block: the
\* lines that extractReferences reads as entries between the heading of the
\* index and the next heading
IndexEntryLines(lines) ==
    LET heading == ReferenceSectionIndex(lines) + 1
        later == { k \in (heading + 1)..Len(lines) : startsWith(lines[k], <<"#">>) }
        end == IF later = {} THEN Len(lines) + 1
               ELSE CHOOSE k \in later : \A q \in later : k <= q
    IN  IF heading = 0 THEN {}
        ELSE { i \in (heading + 1)..(end - 1) : IsMatch(MatchReference(lines[i])) }

\* the reference that extractReferences reads from an entry line
EntryOf(line) == ReferenceOf(MatchReference(line))

\* C15: after operations that all succeeded, no entry of the reference
\* index that is not flagged critical stands before a flagged entry of the
\* same category.
C15_CriticalBeforeOthers ==
    (last # None /\ last.allSucceeded) =>
        \A i, j \in IndexEntryLines(source) :
            (/\ i < j
             /\ EntryOf(source[i]).category = EntryOf(source[j]).category
             /\ EntryOf(source[j]).critical)
                => EntryOf(source[i]).critical

\* some line of the document is the given line
HasLine(lines, line) == \E k \in DOMAIN lines : lines[k] = line

\* C17: after a trackCritical, every entry line the reference index held
\* before the run whose path is the path of a critical document found in
\* the run carries the flag (the unflagged line is gone and the flagged
\* one is there), and every other entry line of the index is still there
\* as it was.
C17_MatchingEntriesFlagged ==
    (last # None /\ last.op = "track") =>
        \A i \in IndexEntryLines(last.before.source) :
            LET line == last.before.source[i]
            IN  IF /\ \E d \in DOMAIN last.criticalDocs :
                          last.criticalDocs[d].path = EntryOf(line).path
                   /\ ~EntryOf(line).critical
                THEN HasLine(source, line \o CriticalFlag) /\ ~HasLine(source, line)
                ELSE HasLine(source, line)

\* C18: a trackCritical that directly follows a trackCritical leaves the
\* document as the first one left it.
C18_SecondTrackChangesNothing ==
    (last # None /\ last.op = "track" /\ last.previous = "track") =>
        source = last.before.source

\* the lines (1-based) that hold a critical documentation pattern heading
CriticalHeadingLines(lines) == { k \in DOMAIN lines : IsCriticalMarker(lines[k]) }

\* C19: after runs of trackCritical only, with enforcement there is exactly
\* one critical pattern heading, and when the last run inserted it into a
\* document with a reference index it stands behind the heading of the
\* index and behind every entry the index held; without enforcement a
\* document that had no such heading has none.
C19_OneCriticalHeadingAfterIndex ==
    (last # None /\ last.op = "track" /\ last.onlyTracks) =>
        IF config.patterns.enforceCriticalSection
        THEN /\ Cardinality(CriticalHeadingLines(source)) = 1
             /\ (/\ CriticalSectionIndex(last.before.source) = -1
                 /\ ReferenceSectionIndex(last.before.source) # -1)
                    => \A c \in CriticalHeadingLines(source) :
                           /\ ReferenceSectionIndex(source) + 1 < c
                           /\ \A i \in IndexEntryLines(last.before.source) :
                                  \A k \in DOMAIN source :
                                      source[k] \in { last.before.source[i],
                                                      last.before.source[i] \o CriticalFlag }
                                          => k < c
        ELSE CriticalSectionIndex(last.before.source) = -1
                 => CriticalSectionIndex(source) = -1

-----------------------------------------------------------------------------
(* validateStructure, validateFile and validateClaudeMd *)

\* the extensions of the reference pattern of validateFile
ReferenceExtensions == { <<"m","d">>, <<"t","x","t">>, <<"y","m","l">>, <<"y","a","m","l">>, <<"j","s","o","n">> }

\* the text between two backticks is one or more characters followed by a
\* dot and one of the extensions
IsReferencedPath(text) ==
    \E ext \in ReferenceExtensions :
        /\ Len(text) > Len(ext) + 1
        /\ SubSeq(text, Len(text) - Len(ext), Len(text)) = <<".">> \o ext

\* the groups of the successive matches of referencePattern.exec(line)
\* from position i on: a code span that does not match gives its closing
\* backtick to the next attempt as an opening one
RECURSIVE ReferencedPaths(_, _)
ReferencedPaths(line, i) ==
    LET open == FindChar(line, i, Backtick)
        close == FindChar(line, open + 1, Backtick)
    IN  IF open > Len(line) \/ close > Len(line) THEN <<>>
        ELSE IF IsReferencedPath(SubSeq(line, open + 1, close - 1))
        THEN <<SubSeq(line, open + 1, close - 1)>> \o ReferencedPaths(line, close + 1)
        ELSE ReferencedPaths(line, close)

\* the ValidationIssue records; line 0 stands for no line, and message
\* keeps what is interpolated into the message
MissingClaudeMd == [type |-> "missing_file", file |-> RelClaudeMd, line |-> 0,
                    message |-> "CLAUDE.md file not found in project root"]
FailedToValidate(projectPath) ==
    [type |-> "missing_file", file |-> projectPath, line |-> 0,
     message |-> "Failed to validate project"]
OversizedFile(filePath, lineCount) ==
    [type |-> "oversized_file", file |-> filePath, line |-> 0, message |-> lineCount]
BrokenReference(filePath, referencedPath, lineNum) ==
    [type |-> "broken_reference", file |-> filePath, line |-> lineNum,
     message |-> referencedPath]
MissingCriticalSection(claudeMdPath) ==
    [type |-> "missing_critical_section", file |-> claudeMdPath, line |-> 0,
     message |-> "Missing CRITICAL DOCUMENTATION section"]
MissingReferenceSection(claudeMdPath) ==
    [type |-> "missing_critical_section", file |-> claudeMdPath, line |-> 0,
     message |-> "Missing documentation references section"]

\* the stats object at the start of validateStructure
NoStats == [totalFiles |-> 0, totalReferences |-> 0, brokenReferences |-> 0,
            oversizedFiles |-> 0, criticalDocs |-> 0]

\* the issues of the references of one line of a file; exists is the set
\* of the paths access() succeeds on
LineIssues(filePath, line, lineNum, exists) ==
    LET paths == ReferencedPaths(line, 1)
        broken == SelectSeq(paths, LAMBDA p : pathJoin(<<ProjectPath, p>>) \notin exists)
    IN  [k \in DOMAIN broken |-> BrokenReference(filePath, broken[k], lineNum)]

\* lines.length > config.thresholds.claudeMdMaxLines
IsOversized(lines, cfg) == Len(lines) > cfg.thresholds.claudeMdMaxLines

\* validateFile on a file that can be read: st holds issues and stats
validateFile(st, filePath, lines, exists, cfg) ==
    LET oversized == IF IsOversized(lines, cfg)
                     THEN <<OversizedFile(filePath, Len(lines))>> ELSE <<>>
        matches == SumSeq([i \in DOMAIN lines |-> Len(ReferencedPaths(lines[i], 1))])
        broken == Flatten([i \in DOMAIN lines |-> LineIssues(filePath, lines[i], i, exists)])
    IN  [st EXCEPT !.issues = @ \o oversized \o broken,
                   !.stats.oversizedFiles = @ + Len(oversized),
                   !.stats.totalReferences = @ + matches,
                   !.stats.brokenReferences = @ + Len(broken)]

HasCriticalSection(lines) ==
    \E i \in DOMAIN lines :
        \/ includes(lines[i], <<"C","R","I","T","I","C","A","L"," ","D","O","C","U","M","E","N","T","A","T","I","O","N">>)
        \/ includes(lines[i], <<"C","r","i","t","i","c","a","l"," ","D","o","c","u","m","e","n","t","a","t","i","o","n">>)

HasReferenceSection(lines) ==
    \E i \in DOMAIN lines :
        \/ includes(lines[i], DocumentationReferences)
        \/ includes(lines[i], <<"K","e","y"," ","D","o","c","u","m","e","n","t","a","t","i","o","n">>)

\* validateClaudeMd on a CLAUDE.md that can be read
validateClaudeMd(st, claudeMdPath, lines, cfg) ==
    LET critical == IF cfg.patterns.enforceCriticalSection /\ ~HasCriticalSection(lines)
                    THEN <<MissingCriticalSection(claudeMdPath)>> ELSE <<>>
        reference == IF ~HasReferenceSection(lines) /\ st.stats.totalFiles > 1
                     THEN <<MissingReferenceSection(claudeMdPath)>> ELSE <<>>
    IN  [st EXCEPT !.issues = @ \o critical \o reference,
                   !.stats.criticalDocs =
                       Cardinality({ i \in DOMAIN lines : includes(lines[i], ReadThisFirst) })]

\* the loop over mdFiles: readFile throws for the files in unreadable, and
\* the loop ends there
RECURSIVE ValidateFiles(_, _, _, _, _, _, _)
ValidateFiles(st, mdFiles, k, project, exists, cfg, unreadable) ==
    IF k > Len(mdFiles) THEN st
    ELSE IF mdFiles[k] \in unreadable THEN [st EXCEPT !.thrown = TRUE]
    ELSE ValidateFiles(validateFile(st, InProject(mdFiles[k]), project[mdFiles[k]],
                                    exists, cfg),
                       mdFiles, k + 1, project, exists, cfg, unreadable)

\* the check for CLAUDE.md: access or validateClaudeMd throws when the file
\* is missing or cannot be read
ClaudeMdCheck(st, project, cfg, unreadable) ==
    IF RelClaudeMd \in DOMAIN project /\ RelClaudeMd \notin unreadable
    THEN validateClaudeMd(st, ClaudeMdPath, project[RelClaudeMd], cfg)
    ELSE [st EXCEPT !.issues = Append(@, MissingClaudeMd)]

\* validateStructure: mdFiles is what glob returns, project the lines of
\* the markdown files by their path relative to the project, exists the
\* paths access() succeeds on
validateStructure(mdFiles, project, exists, cfg, unreadable) ==
    LET start == [issues |-> <<>>, stats |-> [NoStats EXCEPT !.totalFiles = Len(mdFiles)],
                  thrown |-> FALSE]
        looped == ValidateFiles(start, mdFiles, 1, project, exists, cfg, unreadable)
        checked == ClaudeMdCheck(looped, project, cfg, unreadable)
    IN  IF looped.thrown
        THEN [valid |-> FALSE, issues |-> <<FailedToValidate(ProjectPath)>>,
              stats |-> looped.stats]
        ELSE [valid |-> Len(checked.issues) = 0, issues |-> checked.issues,
              stats |-> checked.stats]

-----------------------------------------------------------------------------
(* Specification of validateStructure on one project; files holds every    *)
(* markdown file of the project, CLAUDE.md included when it exists         *)

\* CLAUDE.md: with both sections, without the critical section, without
\* the reference section, with neither
ValidateClaudeMds ==
    { << <<"#"," ","P","r","o","j","e","c","t">>, <<>>, ReferenceHeading, EntrySetup, <<>>, CriticalHeading, <<>> >>,
      << <<"#"," ","P","r","o","j","e","c","t">>, <<>>, ReferenceHeading, EntrySetup, <<>> >>,
      << <<"#"," ","P","r","o","j","e","c","t">>, <<>>, CriticalHeading, <<>> >>,
      << <<"#"," ","P","r","o","j","e","c","t">>, <<>> >> }

\* docs/GUIDE.md: no reference, a reference to a file that exists,
\* references to a file that does not exist and to CLAUDE.md, three lines
ValidateGuides ==
    { << <<"#"," ","G","u","i","d","e">> >>,
      << <<"#"," ","G","u","i","d","e">>, <<"s","e","e"," ",Backtick,"d","o","c","s","/","S","E","T","U","P",".","m","d",Backtick>> >>,
      << <<"s","e","e"," ",Backtick,"d","o","c","s","/","m","i","s","s","i","n","g",".","m","d",Backtick," ","a","n","d"," ",Backtick,"C","L","A","U","D","E",".","m","d",Backtick>> >>,
      << <<"#"," ","G","u","i","d","e">>, <<>>, <<"t","e","x","t">> >> }

\* the projects: each of the three files is there or not
ValidateProjects ==
    { claude @@ guide @@ setup :
          claude \in { <<>> } \cup { ClaudeMdPath :> lines : lines \in ValidateClaudeMds },
          guide \in { <<>> } \cup { InProject(RelGuide) :> lines : lines \in ValidateGuides },
          setup \in { <<>>, InProject(RelSetup) :> << <<"#"," ","S","e","t","u","p">> >> } }

\* a maximum that the file of three lines exceeds, and the default one
ValidateConfigs ==
    { [DefaultConfig EXCEPT !.thresholds.claudeMdMaxLines = max,
                            !.patterns.enforceCriticalSection = enforce] :
          max \in {2, DefaultConfig.thresholds.claudeMdMaxLines}, enforce \in BOOLEAN }

\* arg.unreadable: the files readFile throws for (every file can be read,
\* or docs/GUIDE.md cannot)
InitValidate ==
    /\ files \in ValidateProjects
    /\ config \in ValidateConfigs
    /\ arg \in { [listing |-> l, unreadable |-> u] :
                     l \in Listings,
                     u \in { {} } \cup { {f} : f \in {RelGuide} \cap { Relative(p) : p \in DOMAIN files } } }
    /\ dirs = { dirname(InProject(RelSetup)) }
    /\ source = <<>> /\ last = None /\ ops = 0 /\ ret = None

Validate_creating ==
    /\ ret = None
    /\ \E project \in {DiskFiles(files)} :
          ret' = validateStructure(Glob(arg.listing, project), project,
                                   DOMAIN files \cup dirs, config, arg.unreadable)
    /\ files' = IF ClaudeMdPath \in DOMAIN files THEN files
                ELSE files @@ (ClaudeMdPath :> <<>>)
    /\ UNCHANGED <<source, dirs, config, last, ops, arg>>

\* validateStructure(projectPath, config)
Validate ==
    /\ ret = None
    /\ \E project \in {DiskFiles(files)} :
          ret' = validateStructure(Glob(arg.listing, project), project,
                                   DOMAIN files \cup dirs, config, arg.unreadable)
    /\ UNCHANGED <<source, files, dirs, config, last, ops, arg>>

(* suggestImprovements, and detectCategories of src/utils/analyzer.ts *)

\* the number of leading '#' of a line
RECURSIVE LeadingHashes(_)
LeadingHashes(line) ==
    IF line # <<>> /\ Head(line) = "#" THEN 1 + LeadingHashes(Tail(line)) ELSE 0

\* /^#+\s+/m matches at the start of the line: hashes followed by white
\* space, which is the line break when the hashes end a line that is not
\* the last one
SplitsAt(lines, i) ==
    LET n == LeadingHashes(lines[i])
    IN  /\ n >= 1
        /\ \/ n < Len(lines[i]) /\ IsSpace(lines[i][n + 1])
           \/ n = Len(lines[i]) /\ i < Len(lines)

\* white space of a text of several lines, section.trim() being empty, and
\* the text without the white space that \s+ takes at its start
IsWhite(c) == IsSpace(c) \/ <<c>> = Newline
IsBlankText(text) == \A k \in DOMAIN text : IsWhite(text[k])
TrimStartText(text) ==
    IF IsBlankText(text) THEN <<>>
    ELSE SubSeq(text, CHOOSE k \in DOMAIN text :
                          ~IsWhite(text[k]) /\ \A q \in 1..(k - 1) : IsWhite(text[q]),
                Len(text))

\* content.split(/^#+\s+/m): the text before the first match, and for each
\* match the text behind it up to the next match
SplitSections(lines) ==
    LET starts == { i \in DOMAIN lines : SplitsAt(lines, i) }
        NextStart(i) == IF \E j \in starts : j > i
                        THEN CHOOSE j \in starts : j > i /\ \A q \in starts : q > i => j <= q
                        ELSE Len(lines) + 1
        Behind(i) == SubSeq(lines[i], LeadingHashes(lines[i]) + 1, Len(lines[i]))
    IN  [i \in {0} \cup starts |->
            IF i = 0 THEN join(SubSeq(lines, 1, NextStart(0) - 1), Newline)
            ELSE TrimStartText(join(<<Behind(i)>> \o SubSeq(lines, i + 1, NextStart(i) - 1),
                                    Newline))]

\* detectCategories: category -> the number of the sections, other than
\* blank ones, that detectCategory gives it
detectCategories(lines) ==
    LET sections == SplitSections(lines)
        counted == { i \in DOMAIN sections : ~IsBlankText(sections[i]) }
        found == { detectCategory(sections[i]) : i \in counted }
    IN  [category \in found |->
            Cardinality({ i \in counted : detectCategory(sections[i]) = category })]

\* the Suggestion records; details keeps what is interpolated
Improvement(type, priority, message, details) ==
    [type |-> type, priority |-> priority, message |-> message, details |-> details]

\* suggestions.sort by priorityOrder (the sort is stable)
SortByPriority(suggestions) ==
    SelectSeq(suggestions, LAMBDA s : s.priority = "high")
        \o SelectSeq(suggestions, LAMBDA s : s.priority = "medium")
        \o SelectSeq(suggestions, LAMBDA s : s.priority = "low")

\* what suggestImprovements returns when analyzeFile or readFile throws
FailedToAnalyze ==
    [suggestions |-> <<Improvement("structure", "high",
                                   "Failed to analyze documentation", <<>>)>>,
     metrics |-> [fileSize |-> 0, referenceCount |-> 0,
                  categoryCoverage |-> {}, missingCategories |-> <<>>]]

\* the try block of suggestImprovements behind analyzeFile, the glob and the
\* readFile calls: analysis is what analyzeFile returned, existingCategories
\* the keys of analysis.categories, content what readFile returned
SuggestionsFrom(analysis, existingCategories, content, docFiles, cfg) ==
    LET allCategories == [c \in DOMAIN DOCUMENT_CATEGORIES |-> DOCUMENT_CATEGORIES[c].key]
        missingCategories == SelectSeq(allCategories, LAMBDA cat : cat \notin existingCategories)
        criticalCount == Len(SelectSeq(analysis.references, LAMBDA r : r.critical))
        hasReferenceSection ==
            \/ Len(analysis.references) > 0
            \/ includes(content, DocumentationReferences)
        size ==
            IF analysis.lineCount > cfg.thresholds.claudeMdMaxLines
            THEN <<Improvement("extract", "high", "CLAUDE.md is too large",
                               analysis.lineCount)>>
            ELSE IF analysis.lineCount > cfg.thresholds.extractAtLines
            THEN <<Improvement("extract", "medium", "CLAUDE.md is approaching size limit",
                               analysis.lineCount)>>
            ELSE <<>>
        extractions ==
            [k \in DOMAIN analysis.suggestedExtractions |->
                 Improvement("extract", "medium", "Extract section",
                             analysis.suggestedExtractions[k])]
        references ==
            IF Len(docFiles) > Len(analysis.references)
            THEN <<Improvement("reference", "high",
                               "Missing references to documentation files",
                               <<Len(docFiles), Len(analysis.references)>>)>>
            ELSE <<>>
        critical ==
            IF criticalCount = 0 /\ Len(docFiles) > 0
            THEN <<Improvement("structure", "medium", "No critical documentation marked",
                               <<>>)>>
            ELSE <<>>
        coverage ==
            IF /\ Len(missingCategories) > 0
               /\ 2 * Len(missingCategories) < Len(allCategories)
            THEN <<Improvement("organize", "low", "Missing documentation for categories",
                               missingCategories)>>
            ELSE <<>>
        structure ==
            IF ~hasReferenceSection /\ Len(docFiles) > 0
            THEN <<Improvement("structure", "high",
                               "Missing documentation references section", <<>>)>>
            ELSE <<>>
        pattern ==
            IF /\ cfg.patterns.enforceCriticalSection
               /\ ~includes(content, <<"C","R","I","T","I","C","A","L"," ","D","O","C","U","M","E","N","T","A","T","I","O","N">>)
            THEN <<Improvement("structure", "high",
                               "Missing CRITICAL DOCUMENTATION section", <<>>)>>
            ELSE <<>>
    IN  [suggestions |-> SortByPriority(size \o extractions \o references \o critical
                                            \o coverage \o structure \o pattern),
         metrics |-> [fileSize |-> analysis.lineCount,
                      referenceCount |-> Len(analysis.references),
                      categoryCoverage |-> existingCategories,
                      missingCategories |-> missingCategories]]

\* suggestImprovements: readable tells whether CLAUDE.md can be read, lines
\* is what it holds, docFiles what glob finds under the docs folder
suggestImprovements(readable, lines, docFiles, cfg) ==
    IF ~readable THEN FailedToAnalyze
    ELSE SuggestionsFrom(analyzeFile(lines, cfg), DOMAIN detectCategories(lines),
                         join(lines, Newline), docFiles, cfg)

\* glob('**/*.md', {cwd: join(projectPath, docsFolder)}): the files of the
\* listing that lie under the docs folder
GlobUnder(listing, project, folder) ==
    SelectSeq(Glob(listing, project),
              LAMBDA file : startsWith(InProject(file), ProjectPath \o folder \o <<"/">>))

\* suggestImprovements(projectPath, config); analyzeFile throws when there
\* is no CLAUDE.md
SuggestImprovements ==
    /\ last = None
    /\ \E project \in {DiskFiles(files)} :
          last' = [op |-> "suggest",
                   result |-> suggestImprovements(
                                  ClaudeMdPath \in DOMAIN files,
                                  IF ClaudeMdPath \in DOMAIN files THEN files[ClaudeMdPath]
                                  ELSE <<>>,
                                  GlobUnder(arg.listing, project,
                                            config.organization.docsFolder),
                                  config)]
    /\ UNCHANGED <<source, files, dirs, config, ops, arg, ret>>

NextValidate == Validate \/ SuggestImprovements

SpecValidate == InitValidate /\ [][NextValidate]_vars

\* the issues (by position) of kind missing_file of the result
MissingFileIssues == { k \in DOMAIN ret.issues : ret.issues[k].type = "missing_file" }

\* C20: validate on a project without CLAUDE.md at its root returns
\* exactly one issue of kind missing_file, and that issue names CLAUDE.md.
C20_OneMissingFileIssue ==
    (ret # None /\ ClaudeMdPath \notin DOMAIN files) =>
        /\ Cardinality(MissingFileIssues) = 1
        /\ \A k \in MissingFileIssues : ret.issues[k].file = RelClaudeMd

\* the issues (by position) of kind missing_critical_section of the result
MissingSectionIssues ==
    { k \in DOMAIN ret.issues : ret.issues[k].type = "missing_critical_section" }

\* the number of the two markers that CLAUDE.md lacks
AbsentMarkers(lines) ==
    (IF \E i \in DOMAIN lines : includes(lines[i], <<"C","R","I","T","I","C","A","L"," ","D","O","C","U","M","E","N","T","A","T","I","O","N">>)
     THEN 0 ELSE 1)
        + (IF \E i \in DOMAIN lines : IsReferenceMarker(lines[i]) THEN 0 ELSE 1)

\* C21: when CLAUDE.md exists (and every file can be read), validate
\* returns one missing_critical_section issue for each absent marker when
\* enforceCriticalSection is set, and none when it is not set.
C21_SectionIssuesOnlyWhenEnforced ==
    (ret # None /\ ClaudeMdPath \in DOMAIN files /\ arg.unreadable = {}) =>
        Cardinality(MissingSectionIssues)
            = IF config.patterns.enforceCriticalSection
              THEN AbsentMarkers(files[ClaudeMdPath])
              ELSE 0

\* C24: validate and suggestImprovements only read: every step of either
\* leaves the contents of the files and the set of files and directories
\* as they were, whether the call succeeds or fails.
C24_ReadOnly == [][files' = files /\ dirs' = dirs /\ source' = source]_vars

\* both have run on a project with files: validate failed (a file could not
\* be read) and suggestImprovements succeeded, or validate succeeded and
\* suggestImprovements failed (there is no CLAUDE.md)
C24_Witness ==
    /\ ret # None /\ last # None /\ DOMAIN files # {}
    /\ \/ /\ ret.issues = <<FailedToValidate(ProjectPath)>>
          /\ last.result # FailedToAnalyze
       \/ /\ \A k \in DOMAIN ret.issues : ret.issues[k] # FailedToValidate(ProjectPath)
          /\ last.result = FailedToAnalyze

\* whether a result is a record with a boolean field success that is false
\* when the operation failed
CarriesSuccess(result, failed) ==
    /\ "success" \in DOMAIN result
    /\ result.success \in BOOLEAN
    /\ failed => ~result.success

\* C22: no operation throws on an internal failure; the result of each is
\* a record with a boolean field success, which is false when the
\* operation failed (here: validate, which failed when a file could not be
\* read, and suggestImprovements, which failed when there is no CLAUDE.md).
C22_ResultsCarrySuccess ==
    /\ ret # None =>
           CarriesSuccess(ret, FailedToValidate(ProjectPath) \in Range(ret.issues))
    /\ last # None =>
           CarriesSuccess(last.result, last.result = FailedToAnalyze)

-----------------------------------------------------------------------------
(* The configuration loader: loadConfig *)

\* { ...defaults, ...user } with the whole user section in place of the merge
MergeSection_replaced(defaults, user) == user
\* { ...defaults, ...user }: the own properties of user over those of
\* defaults
MergeSection(defaults, user) ==
    [k \in DOMAIN defaults \cup DOMAIN user |->
         IF k \in DOMAIN user THEN user[k] ELSE defaults[k]]

\* userConfig.section when userConfig is an object: the properties of the
\* section, none when the object has no such section (the spread of
\* undefined)
SectionOf(userConfig, section) ==
    IF section \in DOMAIN userConfig THEN userConfig[section] ELSE <<>>

\* loadConfig.  file.state tells what happens to the configuration file:
\* "missing" (readFile throws), "malformed" (parse throws), "undefined" and
\* "null" (parse returns undefined for an empty file, null for a null
\* document: reading a property of it throws), "scalar" (parse returns a
\* string or a number, which has none of the sections), "object" (parse
\* returns file.value)
loadConfig(file) ==
    IF file.state \in {"missing", "malformed", "undefined", "null"} THEN DefaultConfig
    ELSE LET userConfig == IF file.state = "object" THEN file.value ELSE <<>>
         IN  [thresholds |-> MergeSection(DefaultConfig.thresholds,
                                          SectionOf(userConfig, "thresholds")),
              organization |-> MergeSection(DefaultConfig.organization,
                                            SectionOf(userConfig, "organization")),
              patterns |-> MergeSection(DefaultConfig.patterns,
                                        SectionOf(userConfig, "patterns")),
              monitoring |-> MergeSection(DefaultConfig.monitoring,
                                          SectionOf(userConfig, "monitoring"))]

-----------------------------------------------------------------------------
(* Specification of loadConfig on every configuration file that sets a set *)
(* of the options to values other than the defaults                        *)

\* the value the file gives an option it sets
UserValue(section, option) ==
    IF section = "thresholds" THEN DefaultConfig.thresholds[option] - 100
    ELSE IF option = "docsFolder" THEN <<"/","d","o","c","u","m","e","n","t","a","t","i","o","n">>
    ELSE FALSE

\* the objects a file can parse to: any of the sections, each with any of
\* its options
UserSections(section) ==
    { [option \in options |-> UserValue(section, option)] :
          options \in SUBSET DOMAIN DefaultConfig[section] }

UserConfigs ==
    { t @@ o @@ p @@ m :
          t \in { <<>> } \cup { "thresholds" :> s : s \in UserSections("thresholds") },
          o \in { <<>> } \cup { "organization" :> s : s \in UserSections("organization") },
          p \in { <<>> } \cup { "patterns" :> s : s \in UserSections("patterns") },
          m \in { <<>> } \cup { "monitoring" :> s : s \in UserSections("monitoring") } }

InitConfig ==
    /\ arg \in { [state |-> s, value |-> <<>>] :
                     s \in {"missing", "malformed", "undefined", "null", "scalar"} }
                \cup { [state |-> "object", value |-> v] : v \in UserConfigs }
    /\ ret = None
    /\ Idle

LoadConfig ==
    /\ ret = None
    /\ ret' = [config |-> loadConfig(arg)]
    /\ UNCHANGED <<source, files, dirs, config, last, ops, arg>>

NextConfig == LoadConfig

SpecConfig == InitConfig /\ [][NextConfig]_vars

\* the file sets the option
IsSet(section, option) ==
    /\ arg.state = "object"
    /\ section \in DOMAIN arg.value
    /\ option \in DOMAIN arg.value[section]

\* C25: loading gives a configuration of the four sections; for a missing
\* or malformed file it holds the documented defaults, and for a file that
\* sets some options every option the file does not set has its default.
C25_DefaultsForUnsetOptions ==
    ret # None =>
        /\ DOMAIN ret.config = {"thresholds", "organization", "patterns", "monitoring"}
        /\ arg.state # "object" =>
               /\ ret.config.thresholds = [claudeMdMaxLines |-> 500, extractAtLines |-> 200]
               /\ ret.config.organization.docsFolder = <<"/","d","o","c","s">>
               /\ \A section \in {"organization", "patterns", "monitoring"} :
                      \A option \in DOMAIN ret.config[section] \ {"docsFolder"} :
                          ret.config[section][option] = TRUE
        /\ \A section \in DOMAIN DefaultConfig :
               /\ DOMAIN ret.config[section] = DOMAIN DefaultConfig[section]
               /\ \A option \in DOMAIN DefaultConfig[section] :
                      ~IsSet(section, option)
                          => ret.config[section][option] = DefaultConfig[section][option]

\* a file that sets one of the two thresholds and nothing else was loaded
C25_Witness ==
    /\ ret # None
    /\ arg.state = "object"
    /\ DOMAIN arg.value = {"thresholds"}
    /\ DOMAIN arg.value.thresholds = {"extractAtLines"}
    /\ ret.config.thresholds.extractAtLines = 100
    /\ ret.config.thresholds.claudeMdMaxLines = 500

-----------------------------------------------------------------------------
(* src/tools/extract.ts: extractContent *)

\* getTypeKeywords(contentType)
getTypeKeywords(contentType) ==
    LET type == toLowerCase(contentType)
    IN  CASE type = CatArchitecture ->
                 << <<"a","r","c","h","i","t","e","c","t","u","r","e">>, <<"d","e","s","i","g","n">>, <<"s","y","s","t","e","m">>, <<"c","o","m","p","o","n","e","n","t">>, <<"s","t","r","u","c","t","u","r","e">> >>
          [] type = CatDatabase ->
                 << <<"d","a","t","a","b","a","s","e">>, <<"s","c","h","e","m","a">>, <<"t","a","b","l","e">>, <<"m","i","g","r","a","t","i","o","n">>, <<"m","o","d","e","l">> >>
          [] type = CatSecurity ->
                 << <<"s","e","c","u","r","i","t","y">>, <<"a","u","t","h">>, <<"p","e","r","m","i","s","s","i","o","n">>, <<"t","o","k","e","n">>, <<"a","u","t","h","e","n","t","i","c","a","t","i","o","n">> >>
          [] type = CatApi ->
                 << <<"a","p","i">>, <<"e","n","d","p","o","i","n","t">>, <<"r","o","u","t","e">>, <<"r","e","q","u","e","s","t">>, <<"r","e","s","p","o","n","s","e">> >>
          [] type = CatSetup ->
                 << <<"s","e","t","u","p">>, <<"i","n","s","t","a","l","l">>, <<"c","o","n","f","i","g","u","r","a","t","i","o","n">>, <<"e","n","v","i","r","o","n","m","e","n","t">> >>
          [] type = CatFeatures ->
                 << <<"f","e","a","t","u","r","e">>, <<"r","e","q","u","i","r","e","m","e","n","t">>, <<"s","p","e","c","i","f","i","c","a","t","i","o","n">>, <<"f","u","n","c","t","i","o","n","a","l","i","t","y">> >>
          [] OTHER -> <<type>>

\* the second-level headings of lines (1-based) and, for one of them, the
\* last line (1-based) of its section: the line before the next one, or the
\* last line of the document
SectionStarts(lines) == { i \in DOMAIN lines : IsSectionHeader(lines[i]) }
SectionEnd(lines, start) ==
    IF \E j \in SectionStarts(lines) : j > start
    THEN (CHOOSE j \in SectionStarts(lines) :
              j > start /\ \A q \in SectionStarts(lines) : q > start => j <= q) - 1
    ELSE Len(lines)

\* the score of the section that starts at start: the number of the
\* keywords that its lower-cased text includes
SectionScore(lines, start, typeKeywords) ==
    LET sectionContent ==
            toLowerCase(join(SubSeq(lines, start, SectionEnd(lines, start)), Newline))
    IN  Cardinality({ k \in DOMAIN typeKeywords : includes(sectionContent, typeKeywords[k]) })

\* findSectionByType: the bounds (0-based) of the first section whose score
\* is positive and not below the score of any other section; None for null
findSectionByType(lines, contentType) ==
    LET typeKeywords == getTypeKeywords(contentType)
        score == [i \in SectionStarts(lines) |-> SectionScore(lines, i, typeKeywords)]
        best == { i \in DOMAIN score :
                      /\ score[i] > 0
                      /\ \A j \in DOMAIN score : j < i => score[j] < score[i]
                      /\ \A j \in DOMAIN score : j > i => score[j] <= score[i] }
    IN  IF best = {} THEN None
        ELSE LET start == CHOOSE i \in best : TRUE
             IN  [start |-> start - 1, end |-> SectionEnd(lines, start) - 1]

\* options.startLine || 0 and options.endLine || lines.length - 1: a field
\* that is absent or 0 gives the other value
OrElse(options, field, other) ==
    IF field \in DOMAIN options /\ options[field] # 0 THEN options[field] ELSE other

\* options.contentType && !options.startLine
SearchesSection(options) ==
    /\ "contentType" \in DOMAIN options /\ options.contentType # <<>>
    /\ OrElse(options, "startLine", 0) = 0

\* the range (0-based) that extractContent extracts
ExtractionRange(lines, options) ==
    LET given == [start |-> OrElse(options, "startLine", 0),
                  end |-> OrElse(options, "endLine", Len(lines) - 1)]
    IN  IF SearchesSection(options)
        THEN LET sectionBounds == findSectionByType(lines, options.contentType)
             IN  IF sectionBounds # None THEN sectionBounds ELSE given
        ELSE given

\* the reference line that takes the place of the extracted lines
ExtractReference(emoji, fileName, relativePath) ==
    <<"-"," ","*","*">> \o <<emoji>> \o <<" ">> \o replace(fileName, DotMd, <<>>) \o <<"*","*",":"," ",Backtick>>
        \o relativePath \o <<Backtick>>

\* extractContent from the writes on: the directory and the file it makes,
\* CLAUDE.md with the reference in the place of the range, and the result
WriteExtracted(lines, fls, drs, range, extractedLines, docPath, reference) ==
    LET count == IF range.end - range.start + 1 > 0 THEN range.end - range.start + 1 ELSE 0
    IN  [source |-> spliceIn(spliceOut(lines, range.start, count), range.start,
                             <<reference>>),
         files |-> (docPath :> WriteLines(extractedLines)) @@ fls,
         dirs |-> drs \cup {dirname(docPath)},
         result |-> [success |-> TRUE, extractedFile |-> docPath, reference |-> reference]]

\* extractContent from the file name on: the path of the file and the
\* reference line
ExtractNamed(lines, fls, drs, cfg, range, extractedLines, category, fileName, docPath) ==
    WriteExtracted(lines, fls, drs, range, extractedLines, docPath,
                   ExtractReference(getCategoryEmoji(category), fileName,
                                    replace(docPath, ProjectPath, <<>>)))

\* extractContent from the extracted lines on: the category and the file name
ExtractLines(lines, fls, drs, cfg, options, now, range, extractedLines, category) ==
    LET fileName == extract_generateFileName(extractedLines, category, now)
    IN  ExtractNamed(lines, fls, drs, cfg, range, extractedLines, category, fileName,
                     pathJoin(<<ProjectPath, cfg.organization.docsFolder, fileName>>))

\* options.contentType || detectCategory(extractedContent)
ExtractCategory(options, extractedLines) ==
    IF "contentType" \in DOMAIN options /\ options.contentType # <<>>
    THEN options.contentType
    ELSE detectCategory(join(extractedLines, Newline))

\* extractContent from the range on
ExtractRange(lines, fls, drs, cfg, options, now, range, extractedLines) ==
    ExtractLines(lines, fls, drs, cfg, options, now, range, extractedLines,
                 ExtractCategory(options, extractedLines))

\* extractContent when CLAUDE.md holds lines and every write succeeds: the
\* disk it leaves and the result it returns; now is Date.now()
extractContent(lines, fls, drs, cfg, options, now) ==
    LET range == ExtractionRange(lines, options)
    IN  ExtractRange(lines, fls, drs, cfg, options, now, range,
                     slice(lines, range.start, range.end + 1))

-----------------------------------------------------------------------------
(* Specification of extractContent: one call on a document, with an        *)
(* explicit range or with a content type                                   *)

\* documents: three sections that name keywords of api (one, three and one
\* of them) and of setup; no second-level section; sections without a
\* keyword; two sections with the same score
ExtractDocs ==
    { << <<"#"," ","P","r","o","j","e","c","t">>, <<"#","#"," ","I","n","t","r","o">>, <<"t","h","e"," ","a","p","i">>, <<"#","#"," ","C","a","l","l","s">>,
         <<"E","n","d","p","o","i","n","t"," ","a","n","d"," ","r","o","u","t","e"," ","o","f"," ","t","h","e"," ","A","P","I">>, <<"#","#"," ","S","e","t","u","p">>, <<"i","n","s","t","a","l","l",","," ","t","h","e","n"," ","r","e","q","u","e","s","t">> >>,
      << <<"#"," ","P","r","o","j","e","c","t">>, <<"p","l","a","i","n"," ","t","e","x","t">>, <<"#","#","#"," ","D","e","e","p">> >>,
      << <<"#","#"," ","N","o","t","e","s">>, <<"p","l","a","i","n"," ","t","e","x","t">>, <<"#","#"," ","M","o","r","e">>, <<>> >>,
      << <<"i","n","t","r","o">>, <<"#","#"," ","O","n","e">>, <<"a","p","i">>, <<"#","#"," ","T","w","o">>, <<"a","p","i">> >>,
      << <<"o","n","l","y"," ","l","i","n","e">> >> }

ExtractTypes == { CatApi, CatSetup, <<"S","e","c","u","r","i","t","y">> }

\* the options of a call on a document of n lines: every explicit range
\* 0 <= s <= e < n, a start line alone, a content type alone, and a
\* content type with a start line
ExtractOptions(n) ==
    { [startLine |-> s, endLine |-> e] : s \in 0..(n - 1), e \in 0..(n - 1) }
        \cup { [startLine |-> s] : s \in 0..(n - 1) }
        \cup { [contentType |-> t] : t \in ExtractTypes }
        \cup { [contentType |-> t, startLine |-> s] : t \in ExtractTypes, s \in {1} }

InitExtract ==
    /\ source \in ExtractDocs
    /\ config = DefaultConfig
    /\ files = <<>> /\ dirs = {} /\ last = None /\ ops = 0
    /\ arg = None /\ ret = None

\* extractContent(claudeMdPath, projectPath, config, options)
ExtractContent ==
    /\ last = None
    /\ \E options \in ExtractOptions(Len(source)), now \in Timestamps :
          /\ "endLine" \in DOMAIN options => options.startLine <= options.endLine
          /\ \E out \in {extractContent(source, files, dirs, config, options, now)} :
                /\ source' = out.source
                /\ files' = out.files
                /\ dirs' = out.dirs
                /\ last' = [op |-> "extract", before |-> source, options |-> options,
                            result |-> out.result]
    /\ UNCHANGED <<config, ops, arg, ret>>

NextExtract == ExtractContent

SpecExtract == InitExtract /\ [][NextExtract]_vars

\* the last call had an explicit range s..e and no content type
ExplicitRange ==
    /\ last # None
    /\ DOMAIN last.options = {"startLine", "endLine"}

\* C27: extract with the explicit range s..e, 0 <= s <= e < n (s = 0 and
\* e = 0 included), and no content type writes exactly the lines s..e to
\* the target file, and the source becomes the lines before s, one
\* reference line, and the lines behind e.
C27_ExplicitRangeExtracted ==
    ExplicitRange =>
        LET s == last.options.startLine
            e == last.options.endLine
            n == Len(last.before)
        IN  /\ files[last.result.extractedFile] = SubSeq(last.before, s + 1, e + 1)
            /\ source = SubSeq(last.before, 1, s) \o <<last.result.reference>>
                            \o SubSeq(last.before, e + 2, n)

\* the last call had a content type and no start line
ByContentType ==
    /\ last # None
    /\ DOMAIN last.options = {"contentType"}

\* the sections of a document that have a keyword of the type, and the one
\* the claim names: the earliest of those with the most keywords
MatchingSections(lines, type) ==
    { i \in SectionStarts(lines) : SectionScore(lines, i, getTypeKeywords(type)) > 0 }
ClaimedSection(lines, type) ==
    CHOOSE i \in MatchingSections(lines, type) :
        \A j \in MatchingSections(lines, type) :
            LET si == SectionScore(lines, i, getTypeKeywords(type))
                sj == SectionScore(lines, j, getTypeKeywords(type))
            IN  sj < si \/ (sj = si /\ i <= j)

\* C30: extract with a content type and no start line removes exactly one
\* complete second-level section, the earliest of those with the highest
\* number of keywords of the type; when no section has a keyword, nothing is
\* extracted and the source is left as it was.
C30_SectionOfTypeExtracted ==
    ByContentType =>
        LET lines == last.before
            type == last.options.contentType
        IN  IF MatchingSections(lines, type) = {}
            THEN source = lines /\ files = <<>>
            ELSE LET start == ClaimedSection(lines, type)
                     end == SectionEnd(lines, start)
                 IN  /\ files[last.result.extractedFile] = SubSeq(lines, start, end)
                     /\ source = SubSeq(lines, 1, start - 1) \o <<last.result.reference>>
                                     \o SubSeq(lines, end + 1, Len(lines))

-----------------------------------------------------------------------------
(* Specification of two of a live organizeDocumentation, an extractContent *)
(* and a trackCriticalDocs on the same CLAUDE.md whose file reads and      *)
(* writes interleave: every step is what one call does from one awaited    *)
(* readFile or writeFile to the next (findCriticalDocumentation is one     *)
(* step).  last.org, last.ext and last.track hold the local variables of   *)
(* the calls, arg.runs the two calls that run, arg.options the options of  *)
(* the extract call, ret who wrote CLAUDE.md last.                         *)

\* the documents: a preamble, a section that is suggested for extraction,
\* and nothing, a short section or a second section of that kind behind it
RaceDocs ==
    { pre \o SectionLines(<<"A","u","t","h">>, SectionFloor + 1) \o rest :
          pre \in Preambles,
          rest \in { <<>>, SectionLines(<<"-">>, 1),
                     SectionLines(<<"a","u","t","h","!">>, SectionFloor + 1) } }

\* the options of the extract call: the first two lines, or the section on
\* security
RaceOptions == { [startLine |-> 0, endLine |-> 1], [contentType |-> CatSecurity] }

\* the pairs of calls
RacePairs == { {"organize", "extract"}, {"organize", "track"}, {"extract", "track"} }

InitRace ==
    /\ source \in RaceDocs
    /\ config = [DefaultConfig EXCEPT !.thresholds.extractAtLines = SectionFloor + 4]
    /\ arg \in [options : RaceOptions, runs : RacePairs]
    /\ files = <<>> /\ dirs = {} /\ ops = 0
    /\ last = [org |-> [pc |-> "start", analysis |-> None, analysed |-> <<>>, index |-> 1,
                        lines |-> <<>>, writes |-> <<>>, extractedFiles |-> <<>>,
                        errors |-> <<>>, result |-> None],
               ext |-> [pc |-> "start", lines |-> <<>>, result |-> None],
               track |-> [pc |-> "start", criticalDocs |-> <<>>, lines |-> <<>>,
                          references |-> <<>>, result |-> None]]
    /\ ret = [writer |-> "none"]

\* organizeDocumentation: analyzeFile reads CLAUDE.md; a file within the
\* size limits ends the call
OrganizeAnalyze ==
    /\ "organize" \in arg.runs
    /\ last.org.pc = "start"
    /\ \E analysis \in {analyzeFile(source, config)} :
          last' = [last EXCEPT
                     !.org.analysis = analysis,
                     !.org.analysed = source,
                     !.org.pc = IF analysis.needsExtraction THEN "loop" ELSE "done",
                     !.org.result =
                         IF analysis.needsExtraction THEN None
                         ELSE OrganizeAnalyzed(analysis, source, files, dirs, config,
                                               FALSE, {}).result]
    /\ UNCHANGED <<source, files, dirs, config, ops, arg, ret>>

\* the loop body up to readFile: mkdir, then the read of CLAUDE.md
OrganizeRead ==
    /\ last.org.pc = "loop"
    /\ last.org.index <= Len(last.org.analysis.suggestedExtractions)
    /\ dirs' = dirs \cup { dirname(DocPathOf(last.org.analysis.suggestedExtractions[last.org.index])) }
    /\ last' = [last EXCEPT !.org.lines = source, !.org.pc = "write"]
    /\ UNCHANGED <<source, files, config, ops, arg, ret>>

\* the loop body from writeFile(docPath, extractedContent) on
OrganizeWrite ==
    /\ last.org.pc = "write"
    /\ \E st \in {ExtractSuggestion([files |-> files, dirs |-> dirs,
                                     writes |-> last.org.writes,
                                     extractedFiles |-> last.org.extractedFiles,
                                     errors |-> last.org.errors],
                                    last.org.analysis.suggestedExtractions[last.org.index],
                                    last.org.index, last.org.lines, config, FALSE, {})} :
          /\ files' = st.files
          /\ dirs' = st.dirs
          /\ last' = [last EXCEPT !.org.writes = st.writes,
                                  !.org.extractedFiles = st.extractedFiles,
                                  !.org.errors = st.errors,
                                  !.org.index = @ + 1,
                                  !.org.pc = "loop"]
    /\ UNCHANGED <<source, config, ops, arg, ret>>

\* the OrganizationResult behind the loop
OrganizationResult(org) ==
    [success |-> Len(org.errors) = 0,
     extractedFiles |-> org.extractedFiles,
     updatedReferences |-> org.analysis.references,
     errors |-> IF Len(org.errors) > 0 THEN org.errors ELSE None]

\* behind the loop: updateClaudeMdWithReferences reads CLAUDE.md, or the
\* call ends when no file was extracted
OrganizeUpdateRead ==
    /\ last.org.pc = "loop"
    /\ last.org.index > Len(last.org.analysis.suggestedExtractions)
    /\ last' = IF UpdatesReferences(FALSE, last.org.extractedFiles)
               THEN [last EXCEPT !.org.lines = source, !.org.pc = "update"]
               ELSE [last EXCEPT !.org.pc = "done",
                                 !.org.result = OrganizationResult(last.org)]
    /\ UNCHANGED <<source, files, dirs, config, ops, arg, ret>>

OrganizeUpdateWrite_rereading ==
    /\ last.org.pc = "update"
    /\ source' = updateClaudeMdWithReferences(source, ClaudeMdPath,
                                              last.org.extractedFiles)
    /\ last' = [last EXCEPT !.org.pc = "done", !.org.result = OrganizationResult(last.org)]
    /\ ret' = [writer |-> "organize"]
    /\ UNCHANGED <<files, dirs, config, ops, arg>>

\* updateClaudeMdWithReferences writes CLAUDE.md, and the call returns
OrganizeUpdateWrite ==
    /\ last.org.pc = "update"
    /\ source' = updateClaudeMdWithReferences(last.org.lines, ClaudeMdPath,
                                              last.org.extractedFiles)
    /\ last' = [last EXCEPT !.org.pc = "done", !.org.result = OrganizationResult(last.org)]
    /\ ret' = [writer |-> "organize"]
    /\ UNCHANGED <<files, dirs, config, ops, arg>>

\* the value of Date.now() in the extract call
RaceNow == 7

\* extractContent: the read of CLAUDE.md
ExtractRead ==
    /\ "extract" \in arg.runs
    /\ last.ext.pc = "start"
    /\ last' = [last EXCEPT !.ext.lines = source, !.ext.pc = "read"]
    /\ UNCHANGED <<source, files, dirs, config, ops, arg, ret>>

\* extractContent: mkdir and writeFile(docPath, extractedContent)
ExtractWriteFile ==
    /\ last.ext.pc = "read"
    /\ \E out \in {extractContent(last.ext.lines, files, dirs, config, arg.options, RaceNow)} :
          /\ files' = out.files
          /\ dirs' = out.dirs
    /\ last' = [last EXCEPT !.ext.pc = "wrote"]
    /\ UNCHANGED <<source, config, ops, arg, ret>>

\* extractContent: writeFile(claudeMdPath, lines.join('\n')), and the return
ExtractWriteSource ==
    /\ last.ext.pc = "wrote"
    /\ \E out \in {extractContent(last.ext.lines, files, dirs, config, arg.options, RaceNow)} :
          /\ source' = out.source
          /\ last' = [last EXCEPT !.ext.pc = "done", !.ext.result = out.result]
    /\ ret' = [writer |-> "extract"]
    /\ UNCHANGED <<files, dirs, config, ops, arg>>

\* the orders in which glob may list the files of a set
Orders(paths) == { l \in [1..Cardinality(paths) -> paths] : Range(l) = paths }

\* trackCriticalDocs: findCriticalDocumentation globs and reads the
\* markdown files of the project
TrackFind ==
    /\ "track" \in arg.runs
    /\ last.track.pc = "start"
    /\ \E project \in {ProjectFiles(source, files)} :
          \E docFiles \in Orders(DOMAIN project) :
             last' = [last EXCEPT
                        !.track.criticalDocs = findCriticalDocumentation(docFiles, project),
                        !.track.pc = "found"]
    /\ UNCHANGED <<source, files, dirs, config, ops, arg, ret>>

\* trackCriticalDocs: the read of CLAUDE.md
TrackReadFile ==
    /\ last.track.pc = "found"
    /\ last' = [last EXCEPT !.track.lines = source, !.track.pc = "read"]
    /\ UNCHANGED <<source, files, dirs, config, ops, arg, ret>>

\* trackCriticalDocs: analyzeFile reads CLAUDE.md again
TrackAnalyze ==
    /\ last.track.pc = "read"
    /\ last' = [last EXCEPT !.track.references = analyzeFile(source, config).references,
                            !.track.pc = "analyzed"]
    /\ UNCHANGED <<source, files, dirs, config, ops, arg, ret>>

\* trackCriticalDocs: writeFile(claudeMdPath, lines.join('\n')) when the
\* lines were updated, and the return
TrackWriteFile ==
    /\ last.track.pc = "analyzed"
    /\ \E out \in {trackCriticalDocsWith(last.track.lines, last.track.references,
                                         last.track.criticalDocs, config)} :
          /\ source' = IF out.result.updated THEN out.source ELSE source
          /\ ret' = IF out.result.updated THEN [writer |-> "track"] ELSE ret
          /\ last' = [last EXCEPT !.track.pc = "done", !.track.result = out.result]
    /\ UNCHANGED <<files, dirs, config, ops, arg>>

NextRace ==
    \/ OrganizeAnalyze \/ OrganizeRead \/ OrganizeWrite
    \/ OrganizeUpdateRead \/ OrganizeUpdateWrite
    \/ ExtractRead \/ ExtractWriteFile \/ ExtractWriteSource
    \/ TrackFind \/ TrackReadFile \/ TrackAnalyze \/ TrackWriteFile

SpecRace == InitRace /\ [][NextRace]_vars

\* C23: nothing serializes the two calls: what a call writes to CLAUDE.md
\* is made from the lines that call read, whatever the other call wrote
\* since, so that an edit written in between is lost although both calls
\* report success.
C23_WritesOwnSnapshot ==
    /\ ret.writer = "extract" =>
           source = extractContent(last.ext.lines, files, dirs, config, arg.options, RaceNow).source
    /\ ret.writer = "organize" =>
           source = updateClaudeMdWithReferences(last.org.lines, ClaudeMdPath,
                                                 last.org.extractedFiles)
    /\ ret.writer = "track" =>
           source = trackCriticalDocsWith(last.track.lines, last.track.references,
                                          last.track.criticalDocs, config).source

\* both calls have returned success, organize wrote CLAUDE.md last, and
\* the document lacks the edit of extract: its reference line is not
\* there, and the lines it extracted are all still there
C23_LostUpdate ==
    /\ last.org.pc = "done" /\ last.org.result.success
    /\ last.ext.pc = "done" /\ last.ext.result.success
    /\ last.org.extractedFiles # <<>>
    /\ ret.writer = "organize"
    /\ last.ext.result.reference \notin Range(source)
    /\ \A line \in Range(files[last.ext.result.extractedFile]) : line \in Range(source)

\* the same with the calls exchanged: extract wrote last and no reference
\* line of organize is in the document
LostOrganizeUpdate ==
    /\ last.org.pc = "done" /\ last.org.result.success
    /\ last.ext.pc = "done" /\ last.ext.result.success
    /\ last.org.extractedFiles # <<>>
    /\ ret.writer = "extract"
    /\ \A i \in DOMAIN last.org.extractedFiles :
           NewReferenceLine(last.org.extractedFiles[i], ClaudeMdPath) \notin Range(source)

\* C26: within one organize call the content written for a suggestion is
\* the range startLine..endLine of the document that was analysed, whatever
\* another writer did to CLAUDE.md between the analysis and the read that
\* precedes the write.
C26_ExtractsFromAnalysedSnapshot ==
    \A w \in Range(last.org.writes) :
        w.content = WriteLines(SuggestionLines(
                                   last.org.analysed,
                                   last.org.analysis.suggestedExtractions[w.index]))

\* extract and trackCriticalDocs: both have returned success, track wrote
\* last, and the reference line of extract is not in the document
LostExtractUpdate ==
    /\ arg.runs = {"extract", "track"}
    /\ last.track.pc = "done" /\ last.track.result.success /\ last.track.result.updated
    /\ last.ext.pc = "done" /\ last.ext.result.success
    /\ ret.writer = "track"
    /\ last.ext.result.reference \notin Range(source)

\* the same with the calls exchanged: extract wrote last and the document
\* has no heading of the critical section
LostTrackUpdate ==
    /\ arg.runs = {"extract", "track"}
    /\ last.track.pc = "done" /\ last.track.result.success /\ last.track.result.updated
    /\ last.ext.pc = "done" /\ last.ext.result.success
    /\ ret.writer = "extract"
    /\ CriticalSectionIndex(source) = -1

\* organize and trackCriticalDocs: organize wrote last and the document
\* has no heading of the critical section
LostTrackUpdateByOrganize ==
    /\ arg.runs = {"organize", "track"}
    /\ last.track.pc = "done" /\ last.track.result.success /\ last.track.result.updated
    /\ last.org.pc = "done" /\ last.org.result.success /\ last.org.extractedFiles # <<>>
    /\ ret.writer = "organize"
    /\ CriticalSectionIndex(source) = -1

====
